---- MODULE Spec2Model ----
(***************************************************************************)
(* Route - driver - dynamic shift synchronisation of the gateway           *)
(* (gateway/app/main.py) over the tables declared in ms-rrhh/app/models.py *)
(*                                                                         *)
(* The relational store is PostgreSQL used through SQLAlchemy sessions     *)
(* with autocommit=False: every request handler runs its statements in     *)
(* one transaction whose writes become visible to other requests at        *)
(* db.commit() and are discarded by db.rollback().  A statement that       *)
(* touches a row written by another open transaction waits for it.         *)
(*                                                                         *)
(* A nullable integer column or Python Optional[int] is a set: {} is       *)
(* NULL / None and {n} is the value n.  A Python str is a sequence of      *)
(* one-character strings.  Timestamps are integers counting hours.         *)
(* The columns assigned_at / updated_at, which no handler reads, are left  *)
(* out of the rows.                                                        *)
(***************************************************************************)
EXTENDS Integers, Sequences, FiniteSets, TLC

VARIABLES
    delivery_requests,          \* committed rows of table delivery_requests
    dynamic_shifts,             \* committed rows of table dynamic_shifts
    dynamic_shift_assignments,  \* committed rows of table dynamic_shift_assignments
    seq,                        \* the SERIAL id sequences (not transactional)
    now,                        \* NOW() of the database, in hours
    proc,                       \* per request slot: handler in flight, position, locals
    tx,                         \* per request slot: uncommitted writes of its session
    resp,                       \* the response the last step returned, if it returned one
    codec,                      \* tracking-number codec applied to one input
    route_requests,             \* committed rows of the table of models.RouteRequest
    employees,                  \* committed rows of table employees (ms-rrhh)
    shift_assignments           \* committed rows of table shift_assignments

vars == <<delivery_requests, dynamic_shifts, dynamic_shift_assignments,
          seq, now, proc, tx, resp, codec, route_requests, employees, shift_assignments>>

store == <<delivery_requests, dynamic_shifts, dynamic_shift_assignments>>

(***************************************************************************)
(* Bounds of the model                                                     *)
(***************************************************************************)
NumProcs == 2
NumEmployees == 2
MaxShiftSeq == 2
MaxDeliverySeq == 1
MaxSuffixLen == 3
MaxCodecId == 120
MaxNow == 2
MaxRouteSeq == 2
MaxElapsed == 50
MaxWideSeq == 4
MaxAssignmentSeq == 3

Procs == 1..NumProcs

(***************************************************************************)
(* Python string helpers                                                   *)
(***************************************************************************)
DigitChars == <<"0", "1", "2", "3", "4", "5", "6", "7", "8", "9">>

IsDigit(c) == \E i \in 1..10 : DigitChars[i] = c

DigitVal(c) == (CHOOSE i \in 1..10 : DigitChars[i] = c) - 1

\* str(x) for a non-negative int
RECURSIVE DecimalStr(_)
DecimalStr(x) ==
    IF x < 10 THEN <<DigitChars[x + 1]>>
    ELSE DecimalStr(x \div 10) \o <<DigitChars[(x % 10) + 1]>>

\* the zero fill of the format spec 06d
RECURSIVE ZeroPad(_, _)
ZeroPad(s, width) == IF Len(s) >= width THEN s ELSE ZeroPad(<<"0">> \o s, width)

StartsWith(s, prefix) ==
    /\ Len(s) >= Len(prefix)
    /\ SubSeq(s, 1, Len(prefix)) = prefix

\* s.split(sep) for a one-character separator: the sequence of the pieces
RECURSIVE SplitFrom(_, _, _, _)
SplitFrom(s, sep, i, cur) ==
    IF i > Len(s) THEN <<cur>>
    ELSE IF s[i] = sep THEN <<cur>> \o SplitFrom(s, sep, i + 1, <<>>)
    ELSE SplitFrom(s, sep, i + 1, Append(cur, s[i]))

Split(s, sep) == SplitFrom(s, sep, 1, <<>>)

\* s.strip() over the whitespace the model's alphabet has
RECURSIVE LStrip(_)
LStrip(s) == IF s # <<>> /\ Head(s) = " " THEN LStrip(Tail(s)) ELSE s

RECURSIVE RStrip(_)
RStrip(s) == IF s # <<>> /\ s[Len(s)] = " " THEN RStrip(SubSeq(s, 1, Len(s) - 1)) ELSE s

Strip(s) == RStrip(LStrip(s))

RECURSIVE DigitsValue(_, _)
DigitsValue(s, acc) ==
    IF s = <<>> THEN acc
    ELSE IF Head(s) = "_" THEN DigitsValue(Tail(s), acc)
    ELSE DigitsValue(Tail(s), 10 * acc + DigitVal(Head(s)))

\* int(s): {} when it raises ValueError, {n} when it returns n.  Python
\* accepts surrounding whitespace, one sign, and single underscores
\* between digits.
PyInt(s) ==
    LET t == Strip(s)
        signed == t # <<>> /\ Head(t) \in {"+", "-"}
        u == IF signed THEN Tail(t) ELSE t
        wellFormed ==
            /\ u # <<>>
            /\ \A i \in 1..Len(u) : IsDigit(u[i]) \/ u[i] = "_"
            /\ u[1] # "_"
            /\ u[Len(u)] # "_"
            /\ \A i \in 1..(Len(u) - 1) : ~(u[i] = "_" /\ u[i + 1] = "_")
        magnitude == DigitsValue(u, 0)
    IN  IF ~wellFormed THEN {}
        ELSE IF signed /\ Head(t) = "-" THEN {0 - magnitude}
        ELSE {magnitude}

(***************************************************************************)
(* Tracking number codec                                                   *)
(***************************************************************************)
RT == <<"R", "T", "-">>

\* mutant: the number is cut to the six digits of the format width
encode_truncating(request_id) == RT \o ZeroPad(DecimalStr(request_id % 1000000), 6)

\* mutant: the number is written without the zero fill
encode_unpadded(request_id) == RT \o DecimalStr(request_id)

\* tracking_number = f"RT-{request_id:06d}"
encode(request_id) == RT \o ZeroPad(DecimalStr(request_id), 6)

\* mutant: the route id is never taken from the tracking number
decode_no_route(tracking_number) == {}

\* route_id = None; if tracking_number and tracking_number.startswith("RT-"):
\*   try: route_id = int(tracking_number.split("-")[1])
\*   except (IndexError, ValueError): pass
decode(tracking_number) ==
    IF tracking_number # <<>> /\ StartsWith(tracking_number, RT)
    THEN LET parts == Split(tracking_number, "-")
         IN  IF Len(parts) < 2 THEN {}
             ELSE UNION {PyInt(piece) : piece \in {parts[2]}}
    ELSE {}

(***************************************************************************)
(* Rows, sessions and request slots                                        *)
(***************************************************************************)
Employees == 1..NumEmployees

RetentionHours == 24

\* the rows of table employees behind the employee ids: email and password
\* are NULL, as ALTER TABLE employees ADD COLUMN password leaves them
SeedEmployees ==
    {[id |-> e, email |-> {}, password |-> {}, role_id |-> {}] : e \in Employees}

Ids(rows) == {r.id : r \in rows}

EmptyTx ==
    [dr_w |-> {}, ds_w |-> {}, ds_d |-> {}, dsa_w |-> {}, dsa_d |-> {}, sa_w |-> {}]

IdleProc ==
    [op |-> "idle", pc |-> "done", status_code |-> 0,
     shift_id |-> 0, employee_id |-> 0, driver_id |-> 0,
     tracking_number |-> <<>>, route_id |-> {}, duration_minutes |-> 0,
     dynamic_shift_id |-> 0, request_id |-> 0, deleted_ids |-> {},
     origin |-> <<>>, destination |-> <<>>, duration_s |-> {},
     estimated_start |-> {}, start_datetime |-> {},
     content |-> <<>>, items |-> {},
     username |-> "", password |-> "", detail |-> "",
     access_token |-> {}, token_type |-> "",
     date |-> "", assignment_id |-> 0]

NoResponse == IdleProc

CodecOff == [phase |-> "off", x |-> {}, token |-> <<>>, route_id |-> {}]

\* what the session of request p reads: committed rows overlaid with its own writes
VisibleDr(p) ==
    {r \in delivery_requests : r.id \notin Ids(tx[p].dr_w)} \cup tx[p].dr_w

VisibleDs(p) ==
    {r \in dynamic_shifts : r.id \notin (Ids(tx[p].ds_w) \cup tx[p].ds_d)} \cup tx[p].ds_w

VisibleDsa(p) ==
    {r \in dynamic_shift_assignments :
        r.id \notin (Ids(tx[p].dsa_w) \cup tx[p].dsa_d)} \cup tx[p].dsa_w

\* row locks held by the open transactions of the other requests
LockedDr(p) == UNION {Ids(tx[q].dr_w) : q \in Procs \ {p}}

LockedDs(p) == UNION {Ids(tx[q].ds_w) \cup tx[q].ds_d : q \in Procs \ {p}}

LockedDsa(p) == UNION {Ids(tx[q].dsa_w) \cup tx[q].dsa_d : q \in Procs \ {p}}

\* rows replaced by their new versions in a write set
Overwrite(old, new) == {r \in old : r.id \notin Ids(new)} \cup new

\* mutant: the foreign key declared without ondelete
CascadeDelete_none(assignments, shift_ids) == {}

\* ForeignKey('dynamic_shifts.id', ondelete='CASCADE'): the assignments that
\* go with the deleted shifts
CascadeDelete(assignments, shift_ids) ==
    {a \in assignments : a.dynamic_shift_id \in shift_ids}

\* mutant: the table without its unique constraint
UniqueShiftEmpRole_undeclared(assignments) == TRUE

\* UniqueConstraint('dynamic_shift_id', 'employee_id', 'role_in_shift')
UniqueShiftEmpRole(assignments) ==
    \A a, b \in assignments :
        (/\ a.dynamic_shift_id = b.dynamic_shift_id
         /\ a.employee_id = b.employee_id
         /\ a.role_in_shift = b.role_in_shift) => a.id = b.id

\* a request is served on the lowest free slot
Free(p) ==
    /\ proc[p].pc = "done"
    /\ \A q \in Procs : q < p => proc[q].pc # "done"

\* except ...: db.rollback(); raise HTTPException(status_code=code)
Raise(p, code) ==
    /\ resp' = [proc[p] EXCEPT !.pc = "done", !.status_code = code]
    /\ proc' = [proc EXCEPT ![p] = IdleProc]
    /\ tx' = [tx EXCEPT ![p] = EmptyTx]

\* db.commit(): the writes of the session become the committed rows
Commit(p) ==
    /\ delivery_requests' = VisibleDr(p)
    /\ dynamic_shifts' = VisibleDs(p)
    /\ dynamic_shift_assignments' = VisibleDsa(p)
    /\ tx' = [tx EXCEPT ![p] = EmptyTx]

\* return {...}: 200 with the locals the response carries
Return(p, locals) ==
    /\ resp' = [locals EXCEPT !.pc = "done", !.status_code = 200]
    /\ proc' = [proc EXCEPT ![p] = IdleProc]

\* the row locks of all open transactions, which a handler served in one
\* step waits for
HeldDs == UNION {Ids(tx[q].ds_w) \cup tx[q].ds_d : q \in Procs}

HeldDsa == UNION {Ids(tx[q].dsa_w) \cup tx[q].dsa_d : q \in Procs}

(***************************************************************************)
(* POST /api/routes/assign                                                 *)
(* The handler only inserts a fresh row, so no other request can observe   *)
(* or delay it before its commit: it is one step.  fault names the         *)
(* database call that raises, if any.                                      *)
(***************************************************************************)
AssignFaults == {"none", "insert", "commit"}

\* the token outgrows the six digits of its format at id 1000000; a
\* sequence that has issued the ids up to three below it
WideIdStart == 1000000 - 3

\* the last id the sequence issues: MaxDeliverySeq from its start, and
\* MaxWideSeq past WideIdStart where it starts there
DeliverySeqEnd ==
    IF seq.dr < WideIdStart THEN MaxDeliverySeq ELSE WideIdStart + MaxWideSeq

\* mutant: a repeated request is given the id of a stored delivery request
assign_route_to_driver_reusing(driver_id, origin, destination, fault) ==
    LET locals == [IdleProc EXCEPT !.op = "assign_route", !.driver_id = driver_id,
                                   !.origin = origin, !.destination = destination]
        request_id == IF delivery_requests = {} THEN seq.dr + 1
                      ELSE CHOOSE id \in Ids(delivery_requests) : TRUE
        row == [id |-> request_id, driver_id |-> driver_id, status |-> "assigned"]
    IN  /\ IF driver_id = 0 \/ origin = <<>> \/ destination = <<>>
           THEN \* HTTPException(400) raised inside the try, caught by
                \* "except Exception": rollback, 500
                /\ fault = "none"
                /\ resp' = [locals EXCEPT !.status_code = 500]
                /\ UNCHANGED <<store, seq>>
           ELSE IF fault = "insert"
           THEN \* db.execute raises: rollback, 500
                /\ resp' = [locals EXCEPT !.status_code = 500]
                /\ UNCHANGED <<store, seq>>
           ELSE \* INSERT INTO delivery_requests ... RETURNING id
                /\ seq.dr < DeliverySeqEnd
                /\ seq' = [seq EXCEPT !.dr = request_id]
                /\ IF fault = "commit"
                   THEN \* db.commit raises: rollback, 500
                        /\ resp' = [locals EXCEPT !.status_code = 500,
                                                  !.request_id = request_id]
                        /\ UNCHANGED store
                   ELSE \* tracking_number = f"RT-{request_id:06d}"
                        /\ delivery_requests' = delivery_requests \cup {row}
                        /\ resp' = [locals EXCEPT
                                        !.status_code = 200,
                                        !.request_id = request_id,
                                        !.tracking_number = encode(request_id)]
                        /\ UNCHANGED <<dynamic_shifts, dynamic_shift_assignments>>
        /\ UNCHANGED <<now, proc, tx, codec, route_requests, employees, shift_assignments>>

assign_route_to_driver(driver_id, origin, destination, fault) ==
    LET locals == [IdleProc EXCEPT !.op = "assign_route", !.driver_id = driver_id,
                                   !.origin = origin, !.destination = destination]
        request_id == seq.dr + 1
        row == [id |-> request_id, driver_id |-> driver_id, status |-> "assigned"]
    IN  /\ IF driver_id = 0 \/ origin = <<>> \/ destination = <<>>
           THEN \* HTTPException(400) raised inside the try, caught by
                \* "except Exception": rollback, 500
                /\ fault = "none"
                /\ resp' = [locals EXCEPT !.status_code = 500]
                /\ UNCHANGED <<store, seq>>
           ELSE IF fault = "insert"
           THEN \* db.execute raises: rollback, 500
                /\ resp' = [locals EXCEPT !.status_code = 500]
                /\ UNCHANGED <<store, seq>>
           ELSE \* INSERT INTO delivery_requests ... RETURNING id
                /\ seq.dr < DeliverySeqEnd
                /\ seq' = [seq EXCEPT !.dr = request_id]
                /\ IF fault = "commit"
                   THEN \* db.commit raises: rollback, 500
                        /\ resp' = [locals EXCEPT !.status_code = 500,
                                                  !.request_id = request_id]
                        /\ UNCHANGED store
                   ELSE \* tracking_number = f"RT-{request_id:06d}"
                        /\ delivery_requests' = delivery_requests \cup {row}
                        /\ resp' = [locals EXCEPT
                                        !.status_code = 200,
                                        !.request_id = request_id,
                                        !.tracking_number = encode(request_id)]
                        /\ UNCHANGED <<dynamic_shifts, dynamic_shift_assignments>>
        /\ UNCHANGED <<now, proc, tx, codec, route_requests, employees, shift_assignments>>

(***************************************************************************)
(* POST /api/rrhh/sync-route                                               *)
(* Two inserts of fresh rows and a commit: one step, as above.             *)
(***************************************************************************)
\* mutant: a quotient of 0 is stored as it is
DurationMinutes_unreplaced(duration_s) ==
    IF duration_s = {} THEN 0 ELSE (CHOOSE d \in duration_s : TRUE) \div 60

\* duration_minutes = route_data.get("duration_s", 0) // 60
\* if duration_minutes == 0: duration_minutes = 30
DurationMinutes(duration_s) ==
    LET seconds == IF duration_s = {} THEN 0 ELSE CHOOSE d \in duration_s : TRUE
        minutes == seconds \div 60
    IN  IF minutes = 0 THEN 30 ELSE minutes

\* s.replace('Z', '+00:00')
RECURSIVE ReplaceZ(_)
ReplaceZ(s) ==
    IF s = <<>> THEN <<>>
    ELSE IF Head(s) = "Z" THEN <<"+", "0", "0", ":", "0", "0">> \o ReplaceZ(Tail(s))
    ELSE <<Head(s)>> \o ReplaceZ(Tail(s))

\* the number written by the characters i..j of s, -1 unless all are digits
Field(s, i, j) ==
    IF j <= Len(s) /\ \A k \in i..j : IsDigit(s[k])
    THEN DigitsValue(SubSeq(s, i, j), 0)
    ELSE -1

DaysInMonth(year, month) ==
    IF month = 2
    THEN IF (year % 4 = 0 /\ year % 100 # 0) \/ year % 400 = 0 THEN 29 ELSE 28
    ELSE IF month \in {4, 6, 9, 11} THEN 30 ELSE 31

\* datetime.fromisoformat(s) on the shapes YYYY-MM-DD, YYYY-MM-DD?HH:MM,
\* YYYY-MM-DD?HH:MM:SS and the last followed by a UTC offset +HH:MM or
\* -HH:MM: {} when it raises ValueError, else the date and the time of day
\* the string writes (the offset moves neither)
FromIsoFormat(s) ==
    LET year == Field(s, 1, 4)
        month == Field(s, 6, 7)
        day == Field(s, 9, 10)
        hour == IF Len(s) = 10 THEN 0 ELSE Field(s, 12, 13)
        minute == IF Len(s) = 10 THEN 0 ELSE Field(s, 15, 16)
        second == IF Len(s) \in {10, 16} THEN 0 ELSE Field(s, 18, 19)
        offHour == IF Len(s) = 25 THEN Field(s, 21, 22) ELSE 0
        offMinute == IF Len(s) = 25 THEN Field(s, 24, 25) ELSE 0
        shaped ==
            /\ Len(s) \in {10, 16, 19, 25}
            /\ s[5] = "-" /\ s[8] = "-"
            /\ Len(s) > 10 => s[14] = ":"
            /\ Len(s) > 16 => s[17] = ":"
            /\ Len(s) > 19 => (s[20] \in {"+", "-"} /\ s[23] = ":")
        inRange ==
            /\ year \in 1..9999
            /\ month \in 1..12
            /\ day \in 1..DaysInMonth(year, month)
            /\ hour \in 0..23 /\ minute \in 0..59 /\ second \in 0..59
            /\ offHour \in 0..23 /\ offMinute \in 0..59
    IN  IF shaped /\ inRange
        THEN {[date |-> <<year, month, day>>, time |-> <<hour, minute, second>>]}
        ELSE {}

\* datetime.now() of the gateway when the database clock reads h: whole
\* hours, h = 0 being 23:00 of 2025-01-01
ClockDateTime(h) ==
    [date |-> <<2025, 1, 1 + (23 + h) \div 24>>, time |-> <<(23 + h) % 24, 0, 0>>]

\* mutant: the estimated start is ignored
StartDateTime_always_now(estimated_start, h) == ClockDateTime(h)

\* estimated_start = route_data.get("estimated_start")
\* if estimated_start:
\*   try: start_datetime = datetime.fromisoformat(estimated_start.replace('Z', '+00:00'))
\*   except Exception: start_datetime = datetime.now()
\* else: start_datetime = datetime.now()
StartDateTime(estimated_start, h) ==
    IF estimated_start = {} \/ estimated_start = {<<>>}
    THEN ClockDateTime(h)
    ELSE LET parsed == FromIsoFormat(ReplaceZ(CHOOSE s \in estimated_start : TRUE))
         IN  IF parsed = {} THEN ClockDateTime(h) ELSE CHOOSE d \in parsed : TRUE

SyncFaults == {"none", "insert_shift", "insert_assignment", "commit"}

\* mutant: the shift insert is committed before the assignment insert
SyncCommitted_autocommit(shift, assignment, failed_at) ==
    IF failed_at = "none" THEN [ds |-> {shift}, dsa |-> {assignment}]
    ELSE IF failed_at = "insert_shift" THEN [ds |-> {}, dsa |-> {}]
    ELSE [ds |-> {shift}, dsa |-> {}]

\* mutant: the assignment insert is left out of the commit
SyncCommitted_shift_only(shift, assignment, failed_at) ==
    IF failed_at = "none" THEN [ds |-> {shift}, dsa |-> {}]
    ELSE [ds |-> {}, dsa |-> {}]

\* mutant: the shift is stored with the column default 'pendiente'
SyncCommitted_pendiente(shift, assignment, failed_at) ==
    IF failed_at = "none"
    THEN [ds |-> {[shift EXCEPT !.status = "pendiente"]}, dsa |-> {assignment}]
    ELSE [ds |-> {}, dsa |-> {}]

\* mutant: a commit that reports failure has stored the rows
SyncCommitted_despite_commit_error(shift, assignment, failed_at) ==
    IF failed_at \in {"none", "commit"} THEN [ds |-> {shift}, dsa |-> {assignment}]
    ELSE [ds |-> {}, dsa |-> {}]

\* the rows the session leaves committed: both after db.commit(), none after
\* the db.rollback() of either except clause
SyncCommitted(shift, assignment, failed_at) ==
    IF failed_at = "none" THEN [ds |-> {shift}, dsa |-> {assignment}]
    ELSE [ds |-> {}, dsa |-> {}]

\* mutant: the handler has no "except HTTPException: raise" clause
sync_route_with_rrhh_swallowing(tracking_number, driver_id, duration_s, estimated_start, fault) ==
    LET locals == [IdleProc EXCEPT !.op = "sync_route",
                                   !.tracking_number = tracking_number,
                                   !.driver_id = driver_id,
                                   !.duration_s = duration_s,
                                   !.estimated_start = estimated_start]
        duration_minutes == DurationMinutes(duration_s)
        start_datetime == StartDateTime(estimated_start, now)
        route_id == decode(tracking_number)
        dynamic_shift_id == seq.ds + 1
        shift == [id |-> dynamic_shift_id,
                  route_id |-> route_id,
                  fecha_programada |-> start_datetime.date,
                  hora_inicio |-> start_datetime.time,
                  duracion_minutos |-> duration_minutes,
                  status |-> "asignado",
                  created_at |-> now]
        assignment == [id |-> seq.dsa + 1,
                       dynamic_shift_id |-> dynamic_shift_id,
                       employee_id |-> driver_id,
                       role_in_shift |-> "Conductor Principal",
                       status |-> "asignado"]
        \* employee_id is a foreign key into employees
        failed_at == IF fault = "insert_shift" THEN "insert_shift"
                     ELSE IF fault = "insert_assignment" \/ driver_id \notin Employees
                     THEN "insert_assignment"
                     ELSE fault
        committed == SyncCommitted(shift, assignment, failed_at)
        computed == [locals EXCEPT !.duration_minutes = duration_minutes,
                                   !.start_datetime = {start_datetime},
                                   !.route_id = route_id]
    IN  /\ IF tracking_number = <<>> \/ driver_id = 0
           THEN /\ fault = "none"
                /\ resp' = [locals EXCEPT !.status_code = 500]
                /\ UNCHANGED <<store, seq>>
           ELSE IF failed_at = "insert_shift"
           THEN /\ resp' = [computed EXCEPT !.status_code = 500]
                /\ UNCHANGED <<store, seq>>
           ELSE /\ seq.ds < MaxShiftSeq
                /\ seq' = [seq EXCEPT !.ds = dynamic_shift_id, !.dsa = @ + 1]
                /\ dynamic_shifts' = dynamic_shifts \cup committed.ds
                /\ dynamic_shift_assignments' =
                        dynamic_shift_assignments \cup committed.dsa
                /\ resp' = [computed EXCEPT
                                !.dynamic_shift_id = dynamic_shift_id,
                                !.status_code = IF failed_at = "none" THEN 200 ELSE 500]
                /\ UNCHANGED delivery_requests
        /\ UNCHANGED <<now, proc, tx, codec, route_requests, employees, shift_assignments>>

sync_route_with_rrhh(tracking_number, driver_id, duration_s, estimated_start, fault) ==
    LET locals == [IdleProc EXCEPT !.op = "sync_route",
                                   !.tracking_number = tracking_number,
                                   !.driver_id = driver_id,
                                   !.duration_s = duration_s,
                                   !.estimated_start = estimated_start]
        duration_minutes == DurationMinutes(duration_s)
        start_datetime == StartDateTime(estimated_start, now)
        route_id == decode(tracking_number)
        dynamic_shift_id == seq.ds + 1
        shift == [id |-> dynamic_shift_id,
                  route_id |-> route_id,
                  fecha_programada |-> start_datetime.date,
                  hora_inicio |-> start_datetime.time,
                  duracion_minutos |-> duration_minutes,
                  status |-> "asignado",
                  created_at |-> now]
        assignment == [id |-> seq.dsa + 1,
                       dynamic_shift_id |-> dynamic_shift_id,
                       employee_id |-> driver_id,
                       role_in_shift |-> "Conductor Principal",
                       status |-> "asignado"]
        \* employee_id is a foreign key into employees
        failed_at == IF fault = "insert_shift" THEN "insert_shift"
                     ELSE IF fault = "insert_assignment" \/ driver_id \notin Employees
                     THEN "insert_assignment"
                     ELSE fault
        committed == SyncCommitted(shift, assignment, failed_at)
        computed == [locals EXCEPT !.duration_minutes = duration_minutes,
                                   !.start_datetime = {start_datetime},
                                   !.route_id = route_id]
    IN  /\ IF tracking_number = <<>> \/ driver_id = 0
           THEN \* HTTPException(400), re-raised by "except HTTPException"
                /\ fault = "none"
                /\ resp' = [locals EXCEPT !.status_code = 400]
                /\ UNCHANGED <<store, seq>>
           ELSE IF failed_at = "insert_shift"
           THEN /\ resp' = [computed EXCEPT !.status_code = 500]
                /\ UNCHANGED <<store, seq>>
           ELSE /\ seq.ds < MaxShiftSeq
                /\ seq' = [seq EXCEPT !.ds = dynamic_shift_id, !.dsa = @ + 1]
                /\ dynamic_shifts' = dynamic_shifts \cup committed.ds
                /\ dynamic_shift_assignments' =
                        dynamic_shift_assignments \cup committed.dsa
                /\ resp' = [computed EXCEPT
                                !.dynamic_shift_id = dynamic_shift_id,
                                !.status_code = IF failed_at = "none" THEN 200 ELSE 500]
                /\ UNCHANGED delivery_requests
        /\ UNCHANGED <<now, proc, tx, codec, route_requests, employees, shift_assignments>>

(***************************************************************************)
(* POST /api/rrhh/dynamic-shifts/{shift_id}/auto-assign                    *)
(***************************************************************************)
\* mutant: statement 1 has no WHERE clause
AssignmentTargets_unfiltered(shift_id) == dynamic_shift_assignments

\* the rows of statement 1 and their new versions
AssignmentTargets(shift_id) ==
    {a \in dynamic_shift_assignments : a.dynamic_shift_id = shift_id}

\* mutant: the update sets the status and leaves the employee
AssignmentUpdated_status_only(shift_id, employee_id) ==
    {[a EXCEPT !.status = "asignado"] : a \in AssignmentTargets(shift_id)}

AssignmentUpdated(shift_id, employee_id) ==
    {[a EXCEPT !.employee_id = employee_id, !.status = "asignado"] :
        a \in AssignmentTargets(shift_id)}

\* the new versions break the employee foreign key or the unique constraint
AssignmentUpdateRejected(shift_id, employee_id) ==
    /\ AssignmentTargets(shift_id) # {}
    /\ \/ employee_id \notin Employees
       \/ ~UniqueShiftEmpRole(AssignmentUpdated(shift_id, employee_id))

\* the request arrives and is served on slot p
auto_assign_driver_to_shift(p, shift_id, employee_id) ==
    /\ Free(p)
    /\ proc' = [proc EXCEPT ![p] =
                    [IdleProc EXCEPT !.op = "auto_assign", !.pc = "update_assignment",
                                     !.shift_id = shift_id, !.employee_id = employee_id]]
    /\ resp' = NoResponse
    /\ UNCHANGED <<store, seq, now, tx, codec, route_requests, employees, shift_assignments>>

\* mutant: the first update is committed on its own
auto_assign_update_assignment_autocommit(p) ==
    /\ proc[p].op = "auto_assign" /\ proc[p].pc = "update_assignment"
    /\ Ids(AssignmentTargets(proc[p].shift_id)) \cap LockedDsa(p) = {}
    /\ IF AssignmentUpdateRejected(proc[p].shift_id, proc[p].employee_id)
       THEN /\ Raise(p, 500)
            /\ UNCHANGED store
       ELSE /\ dynamic_shift_assignments' =
                    Overwrite(dynamic_shift_assignments,
                              AssignmentUpdated(proc[p].shift_id, proc[p].employee_id))
            /\ proc' = [proc EXCEPT ![p].pc = "update_shift"]
            /\ resp' = NoResponse
            /\ UNCHANGED <<delivery_requests, dynamic_shifts, tx>>
    /\ UNCHANGED <<seq, now, codec, route_requests, employees, shift_assignments>>

\* statement 1, run once no row of it is locked by another session:
\* UPDATE dynamic_shift_assignments SET employee_id = :employee_id,
\* status = 'asignado' WHERE dynamic_shift_id = :shift_id
auto_assign_update_assignment(p) ==
    /\ proc[p].op = "auto_assign" /\ proc[p].pc = "update_assignment"
    /\ Ids(AssignmentTargets(proc[p].shift_id)) \cap LockedDsa(p) = {}
    /\ IF AssignmentUpdateRejected(proc[p].shift_id, proc[p].employee_id)
       THEN \* except Exception: rollback, 500
            Raise(p, 500)
       ELSE /\ tx' = [tx EXCEPT ![p].dsa_w =
                        AssignmentUpdated(proc[p].shift_id, proc[p].employee_id)]
            /\ proc' = [proc EXCEPT ![p].pc = "update_shift"]
            /\ resp' = NoResponse
    /\ UNCHANGED <<store, seq, now, codec, route_requests, employees, shift_assignments>>

\* mutant: a shift that is already asignado is moved on to en_curso
auto_assign_update_shift_advancing(p) ==
    /\ proc[p].op = "auto_assign" /\ proc[p].pc = "update_shift"
    /\ LET targets == {s \in VisibleDs(p) : s.id = proc[p].shift_id}
           updated == {[s EXCEPT !.status = IF @ = "asignado" THEN "en_curso"
                                           ELSE "asignado"] : s \in targets}
       IN  /\ Ids(targets) \cap LockedDs(p) = {}
           /\ tx' = [tx EXCEPT ![p].ds_w = Overwrite(@, updated)]
    /\ proc' = [proc EXCEPT ![p].pc = "update_delivery"]
    /\ resp' = NoResponse
    /\ UNCHANGED <<store, seq, now, codec, route_requests, employees, shift_assignments>>

\* UPDATE dynamic_shifts SET status = 'asignado' WHERE id = :shift_id
auto_assign_update_shift(p) ==
    /\ proc[p].op = "auto_assign" /\ proc[p].pc = "update_shift"
    /\ LET targets == {s \in VisibleDs(p) : s.id = proc[p].shift_id}
           updated == {[s EXCEPT !.status = "asignado"] : s \in targets}
       IN  /\ Ids(targets) \cap LockedDs(p) = {}
           /\ tx' = [tx EXCEPT ![p].ds_w = Overwrite(@, updated)]
    /\ proc' = [proc EXCEPT ![p].pc = "update_delivery"]
    /\ resp' = NoResponse
    /\ UNCHANGED <<store, seq, now, codec, route_requests, employees, shift_assignments>>

\* mutant: the update of delivery_requests is not joined to the shift
auto_assign_update_delivery_unjoined(p) ==
    /\ proc[p].op = "auto_assign" /\ proc[p].pc = "update_delivery"
    /\ LET updated == {[dr EXCEPT !.driver_id = proc[p].employee_id,
                                  !.status = "assigned"] : dr \in VisibleDr(p)}
       IN  /\ Ids(updated) \cap LockedDr(p) = {}
           /\ tx' = [tx EXCEPT ![p].dr_w = Overwrite(@, updated)]
    /\ proc' = [proc EXCEPT ![p].pc = "commit"]
    /\ resp' = NoResponse
    /\ UNCHANGED <<store, seq, now, codec, route_requests, employees, shift_assignments>>

\* mutant: the delivery request gets the status and keeps its driver
auto_assign_update_delivery_status_only(p) ==
    /\ proc[p].op = "auto_assign" /\ proc[p].pc = "update_delivery"
    /\ LET targets == {dr \in VisibleDr(p) :
                        \E ds \in VisibleDs(p) :
                            ds.id = proc[p].shift_id /\ dr.id \in ds.route_id}
           updated == {[dr EXCEPT !.status = "assigned"] : dr \in targets}
       IN  /\ Ids(targets) \cap LockedDr(p) = {}
           /\ tx' = [tx EXCEPT ![p].dr_w = Overwrite(@, updated)]
    /\ proc' = [proc EXCEPT ![p].pc = "commit"]
    /\ resp' = NoResponse
    /\ UNCHANGED <<store, seq, now, codec, route_requests, employees, shift_assignments>>

\* mutant: the delivery request is left as it is
auto_assign_update_delivery_skipped(p) ==
    /\ proc[p].op = "auto_assign" /\ proc[p].pc = "update_delivery"
    /\ proc' = [proc EXCEPT ![p].pc = "commit"]
    /\ resp' = NoResponse
    /\ UNCHANGED <<store, seq, now, tx, codec, route_requests, employees, shift_assignments>>

\* UPDATE delivery_requests dr SET driver_id = :employee_id, status = 'assigned'
\* FROM dynamic_shifts ds WHERE ds.id = :shift_id AND ds.route_id = dr.id
auto_assign_update_delivery(p) ==
    /\ proc[p].op = "auto_assign" /\ proc[p].pc = "update_delivery"
    /\ LET targets == {dr \in VisibleDr(p) :
                        \E ds \in VisibleDs(p) :
                            ds.id = proc[p].shift_id /\ dr.id \in ds.route_id}
           updated == {[dr EXCEPT !.driver_id = proc[p].employee_id,
                                  !.status = "assigned"] : dr \in targets}
       IN  /\ Ids(targets) \cap LockedDr(p) = {}
           /\ tx' = [tx EXCEPT ![p].dr_w = Overwrite(@, updated)]
    /\ proc' = [proc EXCEPT ![p].pc = "commit"]
    /\ resp' = NoResponse
    /\ UNCHANGED <<store, seq, now, codec, route_requests, employees, shift_assignments>>

\* db.commit(); return {"success": True, ...}
auto_assign_commit(p) ==
    /\ proc[p].op = "auto_assign" /\ proc[p].pc = "commit"
    /\ Commit(p)
    /\ Return(p, proc[p])
    /\ UNCHANGED <<seq, now, codec, route_requests, employees, shift_assignments>>

\* a statement or the commit raises: except Exception -> rollback, 500
auto_assign_error(p) ==
    /\ proc[p].op = "auto_assign"
    /\ proc[p].pc \in {"update_assignment", "update_shift", "update_delivery", "commit"}
    /\ Raise(p, 500)
    /\ UNCHANGED <<store, seq, now, codec, route_requests, employees, shift_assignments>>

(***************************************************************************)
(* DELETE /api/rrhh/dynamic-shifts/{shift_id}/unassign                     *)
(* Two DELETEs and the commit.  Each DELETE waits while a row it would     *)
(* delete is locked, and the rows of the first stay locked through the     *)
(* second, which reads nothing the first did not lock: one step.           *)
(***************************************************************************)
UnassignFaults == {"none", "delete_assignments", "delete_shift", "commit"}

\* mutant: the delivery request of the shift's route is released as well
unassign_driver_from_shift_releasing(shift_id, fault) ==
    /\ fault = "none"
    /\ shift_id \notin HeldDs
    /\ {a.id : a \in AssignmentTargets(shift_id)} \cap HeldDsa = {}
    /\ dynamic_shifts' = {s \in dynamic_shifts : s.id # shift_id}
    /\ dynamic_shift_assignments' =
            dynamic_shift_assignments \ AssignmentTargets(shift_id)
    /\ delivery_requests' =
            {IF \E s \in dynamic_shifts : s.id = shift_id /\ dr.id \in s.route_id
             THEN [dr EXCEPT !.status = "pending"] ELSE dr : dr \in delivery_requests}
    /\ resp' = [IdleProc EXCEPT !.op = "unassign", !.shift_id = shift_id,
                                !.status_code = 200]
    /\ UNCHANGED <<seq, now, proc, tx, codec, route_requests, employees, shift_assignments>>

\* mutant: the shift is moved to cancelado instead of being deleted
unassign_driver_from_shift_cancels(shift_id, fault) ==
    /\ fault = "none"
    /\ shift_id \notin HeldDs
    /\ {a.id : a \in AssignmentTargets(shift_id)} \cap HeldDsa = {}
    /\ dynamic_shifts' =
            {IF s.id = shift_id THEN [s EXCEPT !.status = "cancelado"] ELSE s :
                s \in dynamic_shifts}
    /\ dynamic_shift_assignments' =
            dynamic_shift_assignments \ AssignmentTargets(shift_id)
    /\ resp' = [IdleProc EXCEPT !.op = "unassign", !.shift_id = shift_id,
                                !.status_code = 200]
    /\ UNCHANGED <<delivery_requests, seq, now, proc, tx, codec, route_requests, employees, shift_assignments>>

unassign_driver_from_shift(shift_id, fault) ==
    LET locals == [IdleProc EXCEPT !.op = "unassign", !.shift_id = shift_id]
        \* DELETE FROM dynamic_shift_assignments WHERE dynamic_shift_id = :shift_id
        assignments == {a \in dynamic_shift_assignments : a.dynamic_shift_id = shift_id}
        \* DELETE FROM dynamic_shifts WHERE id = :shift_id
        shifts == {s \in dynamic_shifts : s.id = shift_id}
        cascade == CascadeDelete(dynamic_shift_assignments \ assignments, Ids(shifts))
    IN  /\ IF fault = "delete_assignments"
           THEN /\ resp' = [locals EXCEPT !.status_code = 500]
                /\ UNCHANGED store
           ELSE /\ Ids(assignments) \cap HeldDsa = {}
                /\ IF fault = "delete_shift"
                   THEN /\ resp' = [locals EXCEPT !.status_code = 500]
                        /\ UNCHANGED store
                   ELSE /\ Ids(shifts) \cap HeldDs = {}
                        /\ Ids(cascade) \cap HeldDsa = {}
                        /\ IF fault = "commit"
                           THEN /\ resp' = [locals EXCEPT !.status_code = 500]
                                /\ UNCHANGED store
                           ELSE /\ dynamic_shift_assignments' =
                                        (dynamic_shift_assignments \ assignments) \ cascade
                                /\ dynamic_shifts' = dynamic_shifts \ shifts
                                /\ resp' = [locals EXCEPT !.status_code = 200]
                                /\ UNCHANGED delivery_requests
        /\ UNCHANGED <<seq, now, proc, tx, codec, route_requests, employees, shift_assignments>>

(***************************************************************************)
(* DELETE /api/rrhh/dynamic-shifts/cleanup                                 *)
(* One DELETE and the commit.  The DELETE waits while a row it would       *)
(* delete is locked; once it has run, the rows stay locked until the       *)
(* commit that follows, so the two are one step.                           *)
(***************************************************************************)
CleanupFaults == {"none", "delete", "commit"}

\* mutant: the DELETE has no condition on created_at
cleanup_old_pending_shifts_any_age(fault) ==
    LET targets == {s \in dynamic_shifts : s.status = "pendiente"}
        cascade == CascadeDelete(dynamic_shift_assignments, Ids(targets))
    IN  /\ fault = "none"
        /\ Ids(targets) \cap HeldDs = {}
        /\ Ids(cascade) \cap HeldDsa = {}
        /\ dynamic_shifts' = dynamic_shifts \ targets
        /\ dynamic_shift_assignments' = dynamic_shift_assignments \ cascade
        /\ resp' = [IdleProc EXCEPT !.op = "cleanup", !.status_code = 200,
                                    !.deleted_ids = Ids(targets)]
        /\ UNCHANGED <<delivery_requests, seq, now, proc, tx, codec, route_requests, employees, shift_assignments>>

cleanup_old_pending_shifts(fault) ==
    \* DELETE FROM dynamic_shifts WHERE status = 'pendiente'
    \* AND created_at < NOW() - INTERVAL '24 hours' RETURNING id
    LET locals == [IdleProc EXCEPT !.op = "cleanup"]
        targets == {s \in dynamic_shifts :
                        /\ s.status = "pendiente"
                        /\ s.created_at < now - RetentionHours}
        cascade == CascadeDelete(dynamic_shift_assignments, Ids(targets))
    IN  /\ IF fault = "delete"
           THEN /\ resp' = [locals EXCEPT !.status_code = 500]
                /\ UNCHANGED store
           ELSE /\ Ids(targets) \cap HeldDs = {}
                /\ Ids(cascade) \cap HeldDsa = {}
                /\ IF fault = "commit"
                   THEN /\ resp' = [locals EXCEPT !.status_code = 500]
                        /\ UNCHANGED store
                   ELSE /\ dynamic_shifts' = dynamic_shifts \ targets
                        /\ dynamic_shift_assignments' =
                                dynamic_shift_assignments \ cascade
                        /\ resp' = [locals EXCEPT !.status_code = 200,
                                                  !.deleted_ids = Ids(targets)]
                        /\ UNCHANGED delivery_requests
        /\ UNCHANGED <<seq, now, proc, tx, codec, route_requests, employees, shift_assignments>>

(***************************************************************************)
(* The store when the gateway starts serving, and the requests it serves   *)
(***************************************************************************)
\* dynamic_shifts rows left by earlier runs, in the statuses the column
\* documents (default 'pendiente'), with their assignment and delivery rows
SeedShift(status, created_at, route_id) ==
    [id |-> 1, route_id |-> route_id,
     fecha_programada |-> <<2024, 12, 30>>, hora_inicio |-> <<8, 0, 0>>,
     duracion_minutos |-> 30, status |-> status, created_at |-> created_at]

SeedAssignment(status) ==
    [id |-> 1, dynamic_shift_id |-> 1, employee_id |-> 1,
     role_in_shift |-> "Conductor Principal", status |-> status]

SeedDelivery == [id |-> 1, driver_id |-> 1, status |-> "assigned"]

SeedStores ==
    { [dr |-> {}, ds |-> {}, dsa |-> {}],
      [dr |-> {SeedDelivery},
       ds |-> {SeedShift("pendiente", 0 - RetentionHours - 1, {1})},
       dsa |-> {SeedAssignment("asignado")}],
      \* a shift whose route has no delivery request, and a shift with no
      \* route beside a delivery request
      [dr |-> {},
       ds |-> {SeedShift("pendiente", 0 - RetentionHours, {1})},
       dsa |-> {}],
      [dr |-> {SeedDelivery},
       ds |-> {SeedShift("en_curso", 0 - RetentionHours - 1, {})},
       dsa |-> {SeedAssignment("en_curso")}] }

InitStore ==
    \E seed \in SeedStores :
        /\ delivery_requests = seed.dr
        /\ dynamic_shifts = seed.ds
        /\ dynamic_shift_assignments = seed.dsa
        /\ seq = [dr |-> Cardinality(seed.dr), ds |-> Cardinality(seed.ds),
                  dsa |-> Cardinality(seed.dsa), rr |-> 0, sa |-> 0]

Init ==
    /\ InitStore
    /\ route_requests = {}
    /\ employees = SeedEmployees
    /\ shift_assignments = {}
    /\ now = 0
    /\ proc = [p \in Procs |-> IdleProc]
    /\ tx = [p \in Procs |-> EmptyTx]
    /\ resp = NoResponse
    /\ codec = CodecOff

\* the shift ids of requests: those the sequence has issued and the next one
ShiftIds == 1..(seq.ds + 1)

\* the requests of each handler, with payloads and faults drawn from the given sets
Assigns(drivers, addresses, faults) ==
    \E d \in drivers, o \in addresses, dst \in addresses, f \in faults :
        assign_route_to_driver(d, o, dst, f)

Syncs(tokens, drivers, durations, starts, faults) ==
    \E t \in tokens, d \in drivers, dur \in durations, es \in starts, f \in faults :
        sync_route_with_rrhh(t, d, dur, es, f)

Unassigns(faults) ==
    \E s \in ShiftIds, f \in faults : unassign_driver_from_shift(s, f)

Cleanups(faults) ==
    \E f \in faults : cleanup_old_pending_shifts(f)

AutoAssigns(slots, employee_ids) ==
    \E p \in slots :
        \/ \E s \in ShiftIds, e \in employee_ids : auto_assign_driver_to_shift(p, s, e)
        \/ auto_assign_update_assignment(p)
        \/ auto_assign_update_shift(p)
        \/ auto_assign_update_delivery(p)
        \/ auto_assign_commit(p)
        \/ auto_assign_error(p)

\* concurrent confirmations, unassignments and purges over the seeded stores;
\* the database faults only the open transactions
Next ==
    \/ Unassigns({"none"})
    \/ Cleanups({"none"})
    \/ AutoAssigns(Procs, Employees)

Spec == Init /\ [][Next]_vars

\* the handlers that are served in one step, one request at a time, where one
\* part of the request departs from the well-formed one: a missing or
\* malformed payload field, the id of no employee, or a database fault
PayloadDrivers == {0, 1, NumEmployees + 1}

PayloadAddresses == {<<>>, <<"A">>}

PayloadTokens ==
    {<<>>, encode(1), RT \o <<"a">>, RT \o <<"2", "-", "3">>, <<"X", "-", "1">>}

PayloadDurations == {{}, {-1}, {0}, {60}, {1799}, {5400}}

NextPayloads ==
    \/ Assigns(PayloadDrivers, PayloadAddresses, {"none"})
    \/ Assigns({1}, {<<"A">>}, AssignFaults)
    \/ Syncs(PayloadTokens, {1}, {{}}, {{}}, {"none"})
    \/ Syncs({encode(1)}, PayloadDrivers, {{}}, {{}}, {"none"})
    \/ Syncs({encode(1)}, {1}, PayloadDurations, {{}}, {"none"})
    \/ Syncs({encode(1)}, {1}, {{}}, {{}}, SyncFaults)
    \/ Unassigns(UnassignFaults)
    \/ Cleanups(CleanupFaults)

SpecPayloads == Init /\ [][NextPayloads]_vars

(***************************************************************************)
(* The codec on its own: encode applied to an id, decode to a string       *)
(***************************************************************************)
TokenChars == {"0", "1", "a", "-", " ", "+", "_"}

Suffixes == UNION {[1..n -> TokenChars] : n \in 0..MaxSuffixLen}

CodecTokens ==
    Suffixes \cup {RT \o t : t \in Suffixes}
        \cup { <<"R", "T", "-", "a", "b", "c", "1", "2", "3">>,
               <<"0", "0", "0", "1", "2", "3">>,
               <<"R", "T", "-", "0", "0", "0", "1", "2", "3">>,
               <<"R", "T", "-", "1", "2", "-", "3", "4">>,
               <<"R", "T", "-", " ", "1", "2">> }

CodecIds == (0..MaxCodecId) \cup {999999, 1000000, 1000001, 12345678}

InitCodec ==
    /\ delivery_requests = {}
    /\ dynamic_shifts = {}
    /\ dynamic_shift_assignments = {}
    /\ seq = [dr |-> 0, ds |-> 0, dsa |-> 0, rr |-> 0, sa |-> 0]
    /\ route_requests = {}
    /\ employees = SeedEmployees
    /\ shift_assignments = {}
    /\ now = 0
    /\ proc = [p \in Procs |-> IdleProc]
    /\ tx = [p \in Procs |-> EmptyTx]
    /\ resp = NoResponse
    /\ \/ \E x \in CodecIds :
            codec = [phase |-> "id", x |-> {x}, token |-> <<>>, route_id |-> {}]
       \/ \E t \in CodecTokens :
            codec = [phase |-> "token", x |-> {}, token |-> t, route_id |-> {}]

codec_encode ==
    /\ codec.phase = "id"
    /\ codec' = [codec EXCEPT !.phase = "token",
                              !.token = encode(CHOOSE x \in codec.x : TRUE)]
    /\ UNCHANGED <<store, seq, now, proc, tx, resp, route_requests, employees, shift_assignments>>

codec_decode ==
    /\ codec.phase = "token"
    /\ codec' = [codec EXCEPT !.phase = "decoded", !.route_id = decode(codec.token)]
    /\ UNCHANGED <<store, seq, now, proc, tx, resp, route_requests, employees, shift_assignments>>

NextCodec == codec_encode \/ codec_decode

SpecCodec == InitCodec /\ [][NextCodec]_vars

(***************************************************************************)
(* Properties of the tracking number codec, under SpecCodec                *)
(***************************************************************************)
\* "RT-" followed by one or more decimal digits and nothing else
IsStrictToken(t) ==
    /\ StartsWith(t, RT)
    /\ Len(t) > Len(RT)
    /\ \A i \in (Len(RT) + 1)..Len(t) : IsDigit(t[i])

\* C6: decoding accepts a string only if it is exactly "RT-" followed by one
\* or more decimal digits, in which case it yields the number the digits
\* write; every other string yields no route id.
C6_DecodeAcceptsOnlyStrictTokens ==
    codec.phase = "decoded" =>
        IF IsStrictToken(codec.token)
        THEN codec.route_id =
                {DigitsValue(SubSeq(codec.token, Len(RT) + 1, Len(codec.token)), 0)}
        ELSE codec.route_id = {}

\* C7: decoding the token that encode produces for a non-negative id x
\* returns x, for ids below 1,000,000 and for larger ids, whose token is
\* wider than six digits.
C7_DecodeEncodeRoundTrip ==
    (codec.phase = "decoded" /\ codec.x # {}) => codec.route_id = codec.x

\* an id of seven digits has been encoded and decoded back
C7_WideIdRoundTripped ==
    /\ codec.phase = "decoded"
    /\ codec.x = {1000000}
    /\ Len(codec.token) = Len(RT) + 7
    /\ codec.route_id = {1000000}

(***************************************************************************)
(* Properties of route synchronisation, under SpecPayloads                 *)
(***************************************************************************)
\* C2: no two DynamicShift rows inserted by sync since the gateway started
\* carry the same non-null route_id, however many times a sync is issued with
\* the same tracking number.
C2_OneShiftPerRoute ==
    \A a, b \in {s \in dynamic_shifts : s.created_at >= 0} :
        (a.route_id # {} /\ a.route_id = b.route_id) => a.id = b.id

\* C5: every DynamicShift row stores a duration of at least 30 minutes,
\* whatever duration_s the route carried.
C5_DurationAtLeast30 ==
    \A s \in dynamic_shifts : s.duracion_minutos >= 30

\* C10: a sync that does not report success leaves the store without the
\* DynamicShift row of that call (and without its assignment row): the two
\* inserts are committed together or not at all.
C10_FailedSyncLeavesNoShift ==
    (resp.op = "sync_route" /\ resp.status_code # 200) =>
        /\ resp.dynamic_shift_id \notin Ids(dynamic_shifts)
        /\ \A a \in dynamic_shift_assignments :
                a.dynamic_shift_id # resp.dynamic_shift_id

\* a sync whose shift insert ran and whose assignment insert then failed has
\* returned 500
C10_SyncFailedAfterShiftInsert ==
    /\ resp.op = "sync_route"
    /\ resp.status_code = 500
    /\ resp.dynamic_shift_id # 0
    /\ resp.dynamic_shift_id \notin Ids(dynamic_shifts)

(***************************************************************************)
(* Properties of confirmation, unassignment and purge, under Spec          *)
(***************************************************************************)
\* the step is one of the request served on slot p
StepOf(p) == proc[p].op = "auto_assign" /\ proc'[p] # proc[p]

\* the step is the commit of the request served on slot p
CommitOf(p) == StepOf(p) /\ proc[p].pc = "commit" /\ resp'.status_code = 200

\* every row of the write set is a committed row
Installed(writes, rows) == writes \subseteq rows

\* the rows outside the write set are the ones committed before
OthersKept(writes, before, after) ==
    {r \in after : r.id \notin Ids(writes)} = {r \in before : r.id \notin Ids(writes)}

\* C1: a confirmation is atomic.  No step of it but its commit changes the
\* committed rows, a confirmation that fails leaves them as they were, and
\* its commit installs every row its three updates wrote (assignment rows,
\* shift row, delivery row) in one step, changing nothing else.
C1_ConfirmIsAtomic ==
    [][\A p \in Procs :
        /\ (StepOf(p) /\ ~CommitOf(p)) => store' = store
        /\ (resp'.op = "auto_assign" /\ resp'.status_code = 500) => store' = store
        /\ CommitOf(p) =>
            /\ Installed(tx[p].dsa_w, dynamic_shift_assignments')
            /\ Installed(tx[p].ds_w, dynamic_shifts')
            /\ Installed(tx[p].dr_w, delivery_requests')
            /\ OthersKept(tx[p].dsa_w, dynamic_shift_assignments,
                          dynamic_shift_assignments')
            /\ OthersKept(tx[p].ds_w, dynamic_shifts, dynamic_shifts')
            /\ OthersKept(tx[p].dr_w, delivery_requests, delivery_requests')]_vars

\* a confirmation by employee 2 has returned 200 and the assignment, the shift
\* and the delivery request of the seeded pending shift all carry its update
C1_AllThreeUpdatesCommitted ==
    /\ resp.op = "auto_assign" /\ resp.status_code = 200 /\ resp.employee_id = 2
    /\ \E a \in dynamic_shift_assignments :
            a.dynamic_shift_id = resp.shift_id /\ a.employee_id = 2
    /\ \E s \in dynamic_shifts :
            /\ s.id = resp.shift_id /\ s.status = "asignado"
            /\ \E dr \in delivery_requests : dr.id \in s.route_id /\ dr.driver_id = 2

\* C3: a DynamicShift has status asignado only if an assignment row with
\* status asignado exists for it.
C3_AsignadoHasAssignment ==
    \A s \in dynamic_shifts :
        s.status = "asignado" =>
            \E a \in dynamic_shift_assignments :
                a.dynamic_shift_id = s.id /\ a.status = "asignado"

\* the edges of the DynamicShift.status state machine
StatusEdges ==
    { <<"pendiente", "asignado">>, <<"asignado", "en_curso">>,
      <<"en_curso", "completado">>, <<"asignado", "cancelado">>,
      <<"en_curso", "cancelado">> }

\* C4: the status of a DynamicShift row changes only along the edges of the
\* state machine.
C4_StatusFollowsEdges ==
    [][\A s \in dynamic_shifts : \A t \in dynamic_shifts' :
        (s.id = t.id /\ s.status # t.status) =>
            <<s.status, t.status>> \in StatusEdges]_vars

\* C8: every assignment row refers to a DynamicShift row that exists.
C8_AssignmentsReferToShifts ==
    \A a \in dynamic_shift_assignments : a.dynamic_shift_id \in Ids(dynamic_shifts)

\* the purge has returned 200 having deleted the seeded pending shift, which
\* had an assignment row
C8_PurgedShiftWithAssignment ==
    /\ resp.op = "cleanup" /\ resp.status_code = 200
    /\ resp.deleted_ids = {1}
    /\ dynamic_shifts = {}
    /\ dynamic_shift_assignments = {}
    /\ delivery_requests # {}

\* C9: of two confirmations of one shift by different employees, the one
\* that commits last decides the employee: a commit leaves every assignment
\* row it updated with the employee of its request.  And no step changes an
\* assignment row to leave it committed beside a shift whose status is not
\* asignado.
C9_LastCommitWins ==
    [][/\ \A p \in Procs :
            CommitOf(p) =>
                \A a \in dynamic_shift_assignments' :
                    a.id \in Ids(tx[p].dsa_w) =>
                        a.employee_id = proc[p].employee_id /\ a.status = "asignado"
       /\ \A a \in dynamic_shift_assignments' \ dynamic_shift_assignments :
            \E s \in dynamic_shifts' :
                s.id = a.dynamic_shift_id /\ s.status = "asignado"]_vars

\* a confirmation of the seeded shift by employee 2 has committed while a
\* confirmation of the same shift by employee 1 is in flight
C9_CommittedBesideRival ==
    /\ resp.op = "auto_assign" /\ resp.status_code = 200 /\ resp.employee_id = 2
    /\ \E a \in dynamic_shift_assignments :
            a.dynamic_shift_id = resp.shift_id /\ a.employee_id = 2
    /\ \E q \in Procs :
            /\ proc[q].op = "auto_assign"
            /\ proc[q].shift_id = resp.shift_id
            /\ proc[q].employee_id = 1
            /\ proc[q].pc = "update_assignment"

(***************************************************************************)
(* Effects of the handlers served in one step, under SpecPayloads          *)
(***************************************************************************)
\* C11: a sync that returns 200 adds exactly one DynamicShift row, with
\* status asignado, and exactly one assignment row for it, with the driver
\* of the request, role "Conductor Principal" and status asignado; every
\* other shift, assignment and delivery row is as before.
C11_SyncAddsOneShiftOneAssignment ==
    [][(resp'.op = "sync_route" /\ resp'.status_code = 200) =>
        /\ \E s \in dynamic_shifts' \ dynamic_shifts :
            /\ s.id = resp'.dynamic_shift_id
            /\ s.id \notin Ids(dynamic_shifts)
            /\ s.status = "asignado"
            /\ dynamic_shifts' = dynamic_shifts \cup {s}
        /\ \E a \in dynamic_shift_assignments' \ dynamic_shift_assignments :
            /\ a.dynamic_shift_id = resp'.dynamic_shift_id
            /\ a.id \notin Ids(dynamic_shift_assignments)
            /\ a.employee_id = resp'.driver_id
            /\ a.role_in_shift = "Conductor Principal"
            /\ a.status = "asignado"
            /\ dynamic_shift_assignments' = dynamic_shift_assignments \cup {a}
        /\ delivery_requests' = delivery_requests]_vars

\* a sync has returned 200 beside the seeded shift and its assignment, which
\* are as they were seeded
C11_SyncedBesideSeededShift ==
    /\ resp.op = "sync_route" /\ resp.status_code = 200
    /\ resp.dynamic_shift_id = 2
    /\ SeedShift("en_curso", 0 - RetentionHours - 1, {}) \in dynamic_shifts
    /\ SeedAssignment("en_curso") \in dynamic_shift_assignments
    /\ \E a \in dynamic_shift_assignments :
            a.dynamic_shift_id = 2 /\ a.employee_id = resp.driver_id

\* C12: a route assignment that lacks the driver id, the origin or the
\* destination is answered with the validation error (400), not with the
\* internal error, and persists no delivery request.
C12_MissingFieldIsValidationError ==
    (/\ resp.op = "assign_route"
     /\ (resp.driver_id = 0 \/ resp.origin = <<>> \/ resp.destination = <<>>)) =>
        /\ resp.status_code = 400
        /\ resp.request_id = 0

DeliveriesOfToken == {dr \in delivery_requests : encode(dr.id) = resp.tracking_number}

\* the sync of the response has stored a shift for delivery request dr with
\* status asignado and the given duration
SyncedShiftFor(dr, minutes) ==
    \E s \in dynamic_shifts :
        /\ s.id = resp.dynamic_shift_id
        /\ s.route_id = {dr.id}
        /\ s.status = "asignado"
        /\ s.duracion_minutos = minutes

\* duration_s // 60 of the response's request, 0 when it gave no duration
QuotientMinutes ==
    IF resp.duration_s = {} THEN 0 ELSE (CHOOSE d \in resp.duration_s : TRUE) \div 60

\* C14 as stated: once a route assignment has succeeded and a sync with the
\* token it returned has succeeded, a DynamicShift exists whose route_id is
\* the id of the delivery request, with status asignado and a duration of
\* floor(duration_s / 60) minutes.
C14_SyncedShiftHasFloorDuration ==
    (resp.op = "sync_route" /\ resp.status_code = 200 /\ resp.duration_s # {}) =>
        \A dr \in DeliveriesOfToken : SyncedShiftFor(dr, QuotientMinutes)

\* C14 amended: ... with status asignado and a duration of
\* floor(duration_s / 60) minutes, or of 30 minutes when that quotient is 0
\* or the route gave no duration.
C14_SyncedShiftHasDuration ==
    (resp.op = "sync_route" /\ resp.status_code = 200) =>
        \A dr \in DeliveriesOfToken :
            SyncedShiftFor(dr, IF QuotientMinutes = 0 THEN 30 ELSE QuotientMinutes)

\* from the empty store a route assignment has returned "RT-000001" and the
\* sync with that token and 5400 seconds has stored the first shift, of 90
\* minutes, for delivery request 1
C14_AssignedThenSynced90 ==
    /\ resp.op = "sync_route" /\ resp.status_code = 200
    /\ resp.duration_s = {5400}
    /\ resp.dynamic_shift_id = 1
    /\ resp.tracking_number = <<"R", "T", "-", "0", "0", "0", "0", "0", "1">>
    /\ \E dr \in delivery_requests : dr.id = 1 /\ dr.status = "assigned"
    /\ \E s \in dynamic_shifts :
            s.id = 1 /\ s.route_id = {1} /\ s.status = "asignado"
                /\ s.duracion_minutos = 90

(***************************************************************************)
(* Further properties of confirmation and unassignment, under Spec         *)
(***************************************************************************)
\* the shift has no route, or its route is the id of no delivery request
NoDeliveryOfShift(shift_id) ==
    \A s \in dynamic_shifts :
        s.id = shift_id => \A dr \in delivery_requests : dr.id \notin s.route_id

\* C15: the commit of a confirmation of a shift that has no route, or whose
\* route is the id of no delivery request, leaves the assignment rows of the
\* shift with the employee of the request and status asignado and the shift
\* with status asignado, and leaves delivery_requests as it was.
C15_ConfirmWithoutDeliveryKeepsDeliveries ==
    [][\A p \in Procs :
        (CommitOf(p) /\ NoDeliveryOfShift(proc[p].shift_id)) =>
            /\ delivery_requests' = delivery_requests
            /\ \A a \in dynamic_shift_assignments' :
                a.dynamic_shift_id = proc[p].shift_id =>
                    a.employee_id = proc[p].employee_id /\ a.status = "asignado"
            /\ \A s \in dynamic_shifts' :
                s.id = proc[p].shift_id => s.status = "asignado"]_vars

\* a confirmation by employee 2 of the seeded shift that has no route has
\* returned 200; the assignment and the shift carry its update and the one
\* delivery request is as it was seeded
C15_ConfirmedShiftWithoutRoute ==
    /\ resp.op = "auto_assign" /\ resp.status_code = 200 /\ resp.employee_id = 2
    /\ \E s \in dynamic_shifts :
            s.id = resp.shift_id /\ s.route_id = {} /\ s.status = "asignado"
    /\ \E a \in dynamic_shift_assignments :
            a.dynamic_shift_id = resp.shift_id /\ a.employee_id = 2
    /\ delivery_requests = {SeedDelivery}

\* C16: a confirmation of a shift id that no DynamicShift row has ever had
\* does not report success.
C16_ConfirmOfMissingShiftFails ==
    (resp.op = "auto_assign" /\ resp.shift_id > seq.ds) => resp.status_code # 200

\* C17: an unassignment returns 200 and leaves no DynamicShift row and no
\* assignment row of its shift id, every other row being as before; it does
\* so also when the shift has no assignment, and when the shift is already
\* gone it leaves the store unchanged.
C17_UnassignDeletesShiftAndAssignments ==
    [][resp'.op = "unassign" =>
        /\ resp'.status_code = 200
        /\ dynamic_shifts' = {s \in dynamic_shifts : s.id # resp'.shift_id}
        /\ dynamic_shift_assignments' =
                {a \in dynamic_shift_assignments :
                    a.dynamic_shift_id # resp'.shift_id}
        /\ delivery_requests' = delivery_requests
        /\ resp'.shift_id \notin Ids(dynamic_shifts) => store' = store]_vars

\* the unassignment of the seeded shift, which had an assignment, has
\* returned 200 and both rows are gone
C17_UnassignedSeededShift ==
    /\ resp.op = "unassign" /\ resp.status_code = 200
    /\ resp.shift_id = 1
    /\ seq.ds = 1 /\ seq.dsa = 1
    /\ dynamic_shifts = {}
    /\ dynamic_shift_assignments = {}

(***************************************************************************)
(* Properties of the purge                                                 *)
(***************************************************************************)
\* pendiente and created more than the retention window before now
IsStalePending(s) ==
    s.status = "pendiente" /\ now - s.created_at > RetentionHours

\* C18: a purge that returns 200 deletes exactly the DynamicShift rows that
\* are pendiente and were created more than 24 hours ago, with their
\* assignment rows, and returns exactly their ids; a pendiente shift created
\* 24 hours ago or less, and a shift of any other status whatever its age,
\* is as before.
C18_PurgeDeletesExactlyStalePending ==
    [][(resp'.op = "cleanup" /\ resp'.status_code = 200) =>
        /\ dynamic_shifts' = {s \in dynamic_shifts : ~IsStalePending(s)}
        /\ resp'.deleted_ids = {s.id : s \in {t \in dynamic_shifts : IsStalePending(t)}}
        /\ dynamic_shift_assignments' =
                {a \in dynamic_shift_assignments :
                    a.dynamic_shift_id \notin resp'.deleted_ids}
        /\ delivery_requests' = delivery_requests]_vars

\* a purge has returned the id of the seeded shift, pendiente and 25 hours
\* old, and has left the shift that a sync had added
C18_PurgedStaleKeptSynced ==
    /\ resp.op = "cleanup" /\ resp.status_code = 200
    /\ resp.deleted_ids = {1}
    /\ \E s \in dynamic_shifts : s.id = 2 /\ s.status = "asignado"
    /\ \E a \in dynamic_shift_assignments : a.dynamic_shift_id = 2
    /\ \A a \in dynamic_shift_assignments : a.dynamic_shift_id # 1

(***************************************************************************)
(* The purge statement by statement, for sweeps that run concurrently.     *)
(* No database fault is drawn here: what remains is what the sweeps, and   *)
(* the syncs beside them, do to one another.                               *)
(***************************************************************************)
\* the request arrives and is served on slot p
cleanup_arrive(p) ==
    /\ Free(p)
    /\ proc' = [proc EXCEPT ![p] = [IdleProc EXCEPT !.op = "cleanup", !.pc = "delete"]]
    /\ resp' = NoResponse
    /\ UNCHANGED <<store, seq, now, tx, codec, route_requests, employees, shift_assignments>>

\* the rows the DELETE of session p matches
CleanupTargets(p) ==
    {s \in VisibleDs(p) :
        s.status = "pendiente" /\ s.created_at < now - RetentionHours}

\* mutant: the DELETE does not wait for rows another session has deleted
cleanup_delete_unlocked(p) ==
    /\ proc[p].op = "cleanup" /\ proc[p].pc = "delete"
    /\ tx' = [tx EXCEPT ![p].ds_d = Ids(CleanupTargets(p)),
                        ![p].dsa_d = Ids(CascadeDelete(VisibleDsa(p),
                                                       Ids(CleanupTargets(p))))]
    /\ proc' = [proc EXCEPT ![p].pc = "commit",
                            ![p].deleted_ids = Ids(CleanupTargets(p))]
    /\ resp' = NoResponse
    /\ UNCHANGED <<store, seq, now, codec, route_requests, employees, shift_assignments>>

\* DELETE FROM dynamic_shifts WHERE status = 'pendiente' AND created_at <
\* NOW() - INTERVAL '24 hours' RETURNING id, run once no row of it, nor of
\* its cascade, is locked by another session;
\* deleted_ids = [row[0] for row in result.fetchall()]
cleanup_delete(p) ==
    /\ proc[p].op = "cleanup" /\ proc[p].pc = "delete"
    /\ LET targets == CleanupTargets(p)
           cascade == CascadeDelete(VisibleDsa(p), Ids(targets))
       IN  /\ Ids(targets) \cap LockedDs(p) = {}
           /\ Ids(cascade) \cap LockedDsa(p) = {}
           /\ tx' = [tx EXCEPT ![p].ds_d = Ids(targets), ![p].dsa_d = Ids(cascade)]
           /\ proc' = [proc EXCEPT ![p].pc = "commit", ![p].deleted_ids = Ids(targets)]
    /\ resp' = NoResponse
    /\ UNCHANGED <<store, seq, now, codec, route_requests, employees, shift_assignments>>

\* db.commit(); return {"success": True, ..., "deleted_ids": deleted_ids, ...}
cleanup_commit(p) ==
    /\ proc[p].op = "cleanup" /\ proc[p].pc = "commit"
    /\ Commit(p)
    /\ Return(p, proc[p])
    /\ UNCHANGED <<seq, now, codec, route_requests, employees, shift_assignments>>

Sweeps(slots) ==
    \E p \in slots :
        \/ cleanup_arrive(p)
        \/ cleanup_delete(p)
        \/ cleanup_commit(p)

NextSweep ==
    \/ Sweeps(Procs)
    \/ Syncs({encode(1)}, {1}, {{}}, {{}}, {"none"})

SpecSweep == Init /\ [][NextSweep]_vars

\* the step is the commit of the sweep served on slot p
SweepCommitOf(p) ==
    proc[p].op = "cleanup" /\ proc[p].pc = "commit" /\ proc'[p] # proc[p]

\* C19: sweeps that run one after another or interleaved all return 200;
\* each id a sweep returns is the id of a row that was committed before its
\* commit and is gone after it, so that no other sweep returns it; after the
\* commit of any sweep the store holds what one sweep leaves, the rows that
\* are not stale; and a sweep waits for nothing but the commit of another
\* sweep.
C19_SweepsAgree ==
    [][/\ \A p \in Procs :
            SweepCommitOf(p) =>
                /\ resp'.op = "cleanup" /\ resp'.status_code = 200
                /\ resp'.deleted_ids \subseteq Ids(dynamic_shifts)
                /\ resp'.deleted_ids \cap Ids(dynamic_shifts') = {}
                /\ dynamic_shifts' = {s \in dynamic_shifts : ~IsStalePending(s)}
                /\ dynamic_shift_assignments' =
                        {a \in dynamic_shift_assignments :
                            a.dynamic_shift_id \in Ids(dynamic_shifts')}
                /\ delivery_requests' = delivery_requests
       /\ \A p \in Procs :
            (proc[p].op = "cleanup" /\ proc[p].pc = "delete") =>
                \/ ENABLED cleanup_delete(p)
                \/ \E q \in Procs \ {p} :
                        proc[q].op = "cleanup" /\ proc[q].pc = "commit"]_vars

\* a sweep has returned no id after an earlier sweep deleted the seeded
\* stale shift, while another sweep is in flight
C19_SecondSweepReturnedNothing ==
    /\ resp.op = "cleanup" /\ resp.status_code = 200
    /\ resp.deleted_ids = {}
    /\ seq.ds >= 1 /\ seq.dsa >= 1
    /\ 1 \notin Ids(dynamic_shifts)
    /\ \E q \in Procs : proc[q].op = "cleanup"

(***************************************************************************)
(* The two-step flow of route assignment and sync, under SpecPayloads      *)
(***************************************************************************)
\* C20: a sync that fails leaves the committed rows as they were: the
\* delivery request that the route assignment committed is still there with
\* status assigned, and no DynamicShift row and no assignment row has been
\* added.
C20_FailedSyncKeepsDeliveryOnly ==
    [][(resp'.op = "sync_route" /\ resp'.status_code # 200) =>
        /\ delivery_requests' = delivery_requests
        /\ \A dr \in delivery_requests' :
                encode(dr.id) = resp'.tracking_number => dr.status = "assigned"
        /\ dynamic_shifts' = dynamic_shifts
        /\ dynamic_shift_assignments' = dynamic_shift_assignments]_vars

\* from the empty store a route assignment has committed delivery request 1
\* and the sync with its token has failed after its shift insert: the
\* delivery request is stored, assigned, and there is no shift and no
\* assignment
C20_AssignedThenSyncFailed ==
    /\ resp.op = "sync_route" /\ resp.status_code = 500
    /\ resp.tracking_number = <<"R", "T", "-", "0", "0", "0", "0", "0", "1">>
    /\ resp.dynamic_shift_id = 1 /\ seq.ds = 1
    /\ \E dr \in delivery_requests : dr.id = 1 /\ dr.status = "assigned"
    /\ dynamic_shifts = {}
    /\ dynamic_shift_assignments = {}

(***************************************************************************)
(* Tolerance of the sync for its inputs, under SpecPayloads                *)
(***************************************************************************)
\* the step is the sync of token t for employee 1 with no database fault
SyncStepOf(t, duration_s, estimated_start) ==
    sync_route_with_rrhh(t, 1, duration_s, estimated_start, "none")

\* the step has stored a new shift with the given route id and a new
\* assignment for it
SyncStored(route_id) ==
    \E s \in dynamic_shifts' \ dynamic_shifts :
        /\ s.route_id = route_id
        /\ \E a \in dynamic_shift_assignments' \ dynamic_shift_assignments :
                a.dynamic_shift_id = s.id

\* C21: a sync whose token is not "RT-" followed by digits only (another
\* prefix, or a suffix that is not a number) does not fail for it: it
\* returns 200 and has stored the shift and its assignment, the shift with no
\* route id.
C21_UndecodableTokenGivesNullRoute ==
    [][\A t \in PayloadTokens :
        (t # <<>> /\ ~IsStrictToken(t) /\ SyncStepOf(t, {}, {})) =>
            /\ resp'.status_code = 200
            /\ SyncStored({})]_vars

\* q is floor(d / 60): the integer with 60 q <= d < 60 (q + 1)
IsFloorOfSixtieth(q, d) == 60 * q <= d /\ d < 60 * (q + 1)

\* the duration the shift of the response is stored with
StoredDurations ==
    {s.duracion_minutos : s \in {t \in dynamic_shifts : t.id = resp.dynamic_shift_id}}

Tick ==
    /\ now < MaxNow
    /\ now' = now + 1
    /\ resp' = NoResponse
    /\ UNCHANGED <<store, seq, proc, tx, codec, route_requests, employees, shift_assignments>>

IsoStart == <<"2", "0", "2", "5", "-", "0", "3", "-", "0", "4", "T",
              "0", "5", ":", "0", "6", ":", "0", "7">>

\* estimated_start missing, empty, not a date, a date and time with and
\* without the trailing Z, a date alone, and the 30th of February
PayloadStarts ==
    { {}, {<<>>}, {<<"s", "o", "o", "n">>},
      {IsoStart}, {IsoStart \o <<"Z">>}, {SubSeq(IsoStart, 1, 10)},
      {<<"2", "0", "2", "5", "-", "0", "2", "-", "3", "0", "T",
         "0", "5", ":", "0", "6", ":", "0", "7">>} }

NextStart ==
    \/ Tick
    \/ Syncs({encode(1)}, {1}, {{}}, PayloadStarts, {"none"})

SpecStart == Init /\ [][NextStart]_vars

\* the date and the time of day of the shift the step has stored
StoredStarts ==
    {<<s.fecha_programada, s.hora_inicio>> : s \in dynamic_shifts' \ dynamic_shifts}

\* the date and the time of day of the gateway's clock at the step
ClockStart ==
    <<<<2025, 1, IF now = 0 THEN 1 ELSE 2>>, <<IF now = 0 THEN 23 ELSE now - 1, 0, 0>>>>

\* C23: a sync stores the shift with the date and the time of day that
\* estimated_start writes when it is an ISO 8601 date and time, with or
\* without a trailing Z, or a date alone (midnight); when estimated_start
\* is missing, empty or not such a string (also a date that does not exist)
\* it stores the date and time of the clock; and in none of these cases does
\* it fail.
C23_StartIsParsedOrNow ==
    [][\A es \in PayloadStarts :
        SyncStepOf(encode(1), {}, es) =>
            /\ resp'.status_code = 200
            /\ StoredStarts =
                { IF es \in {{IsoStart}, {IsoStart \o <<"Z">>}}
                  THEN <<<<2025, 3, 4>>, <<5, 6, 7>>>>
                  ELSE IF es = {SubSeq(IsoStart, 1, 10)}
                  THEN <<<<2025, 3, 4>>, <<0, 0, 0>>>>
                  ELSE ClockStart }]_vars

\* after the clock has passed midnight a sync whose estimated_start is not a
\* date has stored a shift that starts at the clock's date and hour, beside
\* a shift that starts at the estimated start of its sync
C23_UnparseableStoredAsNow ==
    /\ resp.op = "sync_route" /\ resp.status_code = 200
    /\ resp.estimated_start = {<<"s", "o", "o", "n">>}
    /\ now = 2
    /\ \E s \in dynamic_shifts :
            /\ s.id = resp.dynamic_shift_id
            /\ s.fecha_programada = <<2025, 1, 2>> /\ s.hora_inicio = <<1, 0, 0>>
    /\ \E s \in dynamic_shifts :
            s.fecha_programada = <<2025, 3, 4>> /\ s.hora_inicio = <<5, 6, 7>>

(***************************************************************************)
(* POST /maps/directions and the route request log                         *)
(* The routing request is forwarded to ms-logistica and the attempt is     *)
(* logged in the table of models.RouteRequest.  The handler only inserts a *)
(* fresh row: one step.  outcome is what the call to ms-logistica gave,    *)
(* fault the call of the logging that raises, if any.                      *)
(***************************************************************************)
ProviderOutcomes ==
    { [kind |-> "unreachable", status_code |-> 0, json |-> FALSE],
      [kind |-> "exception", status_code |-> 0, json |-> FALSE] }
        \cup { [kind |-> "response", status_code |-> c, json |-> j] :
                    c \in {200, 404, 500}, j \in BOOLEAN }

AuditFaults == {"none", "add", "commit", "refresh"}

ErrorPrefix == <<"e", "r", "r", "o", "r", ":">>

\* mutant: every attempt is logged as ok
RouteRequestStatus_always_ok(outcome) == <<"o", "k">>

\* status="error:ms_unreachable" /
\* status="ok" if r.status_code == 200 else f"error:{r.status_code}"
RouteRequestStatus(outcome) ==
    IF outcome.kind = "unreachable"
    THEN ErrorPrefix \o <<"m", "s", "_", "u", "n", "r", "e", "a", "c", "h", "a", "b", "l", "e">>
    ELSE IF outcome.status_code = 200 THEN <<"o", "k">>
    ELSE ErrorPrefix \o DecimalStr(outcome.status_code)

\* the JSONResponse of each outcome: 502 / 500 with the error name, or the
\* status code of ms-logistica with r.json(), {"raw_text": body_text} when
\* the body is not JSON
DirectionsResponse(outcome) ==
    IF outcome.kind = "unreachable"
    THEN [status_code |-> 502, content |-> <<"ms_logistica_unreachable">>]
    ELSE IF outcome.kind = "exception"
    THEN [status_code |-> 500, content |-> <<"internal_proxy_error">>]
    ELSE [status_code |-> outcome.status_code,
          content |-> IF outcome.json THEN <<"json">> ELSE <<"raw_text">>]

\* mutant: a failure of the logging is answered with an internal error
maps_directions_surfacing(outcome, fault) ==
    LET response == IF fault = "none" THEN DirectionsResponse(outcome)
                    ELSE [status_code |-> 500, content |-> <<"internal_proxy_error">>]
        request_id == seq.rr + 1
    IN  /\ seq.rr < MaxRouteSeq
        /\ outcome.kind = "exception" => fault = "none"
        /\ outcome.kind = "unreachable" => fault # "refresh"
        /\ resp' = [IdleProc EXCEPT !.op = "maps_directions",
                                    !.status_code = response.status_code,
                                    !.content = response.content]
        /\ IF outcome.kind = "exception" \/ fault = "add"
           THEN UNCHANGED <<route_requests, seq>>
           ELSE /\ seq' = [seq EXCEPT !.rr = request_id]
                /\ route_requests' =
                        IF fault = "commit" THEN route_requests
                        ELSE route_requests \cup
                                {[id |-> request_id, status |-> RouteRequestStatus(outcome)]}
        /\ UNCHANGED <<store, now, proc, tx, codec, employees, shift_assignments>>

maps_directions(outcome, fault) ==
    LET response == DirectionsResponse(outcome)
        request_id == seq.rr + 1
        rr == [id |-> request_id, status |-> RouteRequestStatus(outcome)]
    IN  /\ seq.rr < MaxRouteSeq
        \* "except Exception" of the call to ms-logistica: nothing is logged
        /\ outcome.kind = "exception" => fault = "none"
        \* db.refresh(rr) is called only after a response
        /\ outcome.kind = "unreachable" => fault # "refresh"
        /\ resp' = [IdleProc EXCEPT !.op = "maps_directions",
                                    !.status_code = response.status_code,
                                    !.content = response.content]
        /\ IF outcome.kind = "exception" \/ fault = "add"
           THEN UNCHANGED <<route_requests, seq>>
           ELSE \* db.add(rr); db.commit(); db.refresh(rr), any exception
                \* of which is logged and dropped
                /\ seq' = [seq EXCEPT !.rr = request_id]
                /\ route_requests' =
                        IF fault = "commit" THEN route_requests
                        ELSE route_requests \cup {rr}
        /\ UNCHANGED <<store, now, proc, tx, codec, employees, shift_assignments>>

\* GET /admin/route-requests: the rows, at most limit of them
list_route_requests(limit) ==
    /\ Cardinality(route_requests) <= limit
    /\ resp' = [IdleProc EXCEPT !.op = "list_route_requests", !.status_code = 200,
                                !.items = route_requests]
    /\ UNCHANGED <<store, seq, now, proc, tx, codec, route_requests, employees, shift_assignments>>

\* GET /admin/route-requests/{request_id}
get_route_request(request_id) ==
    LET item == {r \in route_requests : r.id = request_id}
    IN  /\ resp' = [IdleProc EXCEPT !.op = "get_route_request",
                                    !.request_id = request_id,
                                    !.status_code = IF item = {} THEN 404 ELSE 200,
                                    !.items = item]
        /\ UNCHANGED <<store, seq, now, proc, tx, codec, route_requests, employees, shift_assignments>>

InitRoutes ==
    /\ delivery_requests = {}
    /\ dynamic_shifts = {}
    /\ dynamic_shift_assignments = {}
    /\ seq = [dr |-> 0, ds |-> 0, dsa |-> 0, rr |-> 0, sa |-> 0]
    /\ route_requests = {}
    /\ employees = SeedEmployees
    /\ shift_assignments = {}
    /\ now = 0
    /\ proc = [p \in Procs |-> IdleProc]
    /\ tx = [p \in Procs |-> EmptyTx]
    /\ resp = NoResponse
    /\ codec = CodecOff

NextRoutes ==
    \/ \E o \in ProviderOutcomes, f \in AuditFaults : maps_directions(o, f)
    \/ list_route_requests(100)
    \/ \E id \in 1..(seq.rr + 1) : get_route_request(id)

SpecRoutes == InitRoutes /\ [][NextRoutes]_vars

\* C24: whatever ms-logistica gave (any status code, or no answer), the
\* response of a routing request whose logging fails is the response the
\* same request gets when its logging succeeds.
C24_AuditFailureKeepsResponse ==
    [][\A o \in ProviderOutcomes, f \in AuditFaults \ {"none"}, r \in {resp'} :
        maps_directions(o, f) =>
            ENABLED (maps_directions(o, "none") /\ resp' = r)]_vars

\* a routing request that ms-logistica answered has returned its 200 and
\* its logging failed at the commit: the log is empty
C24_AnsweredWithoutRecord ==
    /\ resp.op = "maps_directions" /\ resp.status_code = 200
    /\ seq.rr = 1
    /\ route_requests = {}
    /\ employees = SeedEmployees
    /\ shift_assignments = {}

\* the status the log is to show for an outcome
LoggedStatus(o) ==
    IF o.kind = "unreachable"
    THEN <<"e", "r", "r", "o", "r", ":", "m", "s", "_",
           "u", "n", "r", "e", "a", "c", "h", "a", "b", "l", "e">>
    ELSE IF o.status_code = 200 THEN <<"o", "k">>
    ELSE IF o.status_code = 404 THEN <<"e", "r", "r", "o", "r", ":", "4", "0", "4">>
    ELSE <<"e", "r", "r", "o", "r", ":", "5", "0", "0">>

\* C25: the route request log only grows.  A routing request that
\* ms-logistica answered, or that it could not be reached for, and whose
\* logging succeeds adds exactly one row, with a fresh id and the status of
\* the outcome (ok for 200, error:<code> for another code, error:ms_unreachable
\* for no answer); and no step of any operation on the log changes or removes
\* a row that is there.
C25_RouteLogIsAppendOnly ==
    [][/\ route_requests \subseteq route_requests'
       /\ \A o \in ProviderOutcomes :
            (o.kind # "exception" /\ maps_directions(o, "none")) =>
                \E r \in route_requests' \ route_requests :
                    /\ route_requests' = route_requests \cup {r}
                    /\ r.id \notin Ids(route_requests)
                    /\ r.status = LoggedStatus(o)
       /\ resp'.op \in {"list_route_requests", "get_route_request"} =>
            route_requests' = route_requests]_vars

\* the log holds the row of an answered request and the row of a request
\* for which ms-logistica could not be reached, and has just been listed
C25_LoggedOkAndUnreachable ==
    /\ resp.op = "list_route_requests"
    /\ resp.items = route_requests
    /\ \E a, b \in route_requests :
            /\ a.id = 1 /\ a.status = <<"o", "k">>
            /\ b.id = 2 /\ b.status = LoggedStatus([kind |-> "unreachable"])

(***************************************************************************)
(* Shifts with a crew: confirmations of a shift that has two assignment    *)
(* rows, and syncs beside them.  No database fault is drawn here, so that  *)
(* a confirmation fails only when the database rejects its update.         *)
(***************************************************************************)
\* the second assignment row of the seeded shift, of employee 2
SeedCrew(role_in_shift) ==
    [id |-> 2, dynamic_shift_id |-> 1, employee_id |-> 2,
     role_in_shift |-> role_in_shift, status |-> "asignado"]

InitCrew ==
    /\ \E role \in {"Conductor Principal", "asistente"} :
            dynamic_shift_assignments = {SeedAssignment("asignado"), SeedCrew(role)}
    /\ dynamic_shifts = {SeedShift("pendiente", 0, {})}
    /\ delivery_requests = {}
    /\ seq = [dr |-> 0, ds |-> 1, dsa |-> 2, rr |-> 0, sa |-> 0]
    /\ route_requests = {}
    /\ employees = SeedEmployees
    /\ shift_assignments = {}
    /\ now = 0
    /\ proc = [p \in Procs |-> IdleProc]
    /\ tx = [p \in Procs |-> EmptyTx]
    /\ resp = NoResponse
    /\ codec = CodecOff

NextCrew ==
    \/ \E p \in Procs :
        \/ \E e \in Employees : auto_assign_driver_to_shift(p, 1, e)
        \/ auto_assign_update_assignment(p)
        \/ auto_assign_update_shift(p)
        \/ auto_assign_update_delivery(p)
        \/ auto_assign_commit(p)
    \/ Syncs({encode(1)}, {1}, {{}}, {{}}, {"none"})

SpecCrew == InitCrew /\ [][NextCrew]_vars

\* no two of the rows have the same shift, employee and role
NoDuplicateAssignment(rows) ==
    \A a, b \in rows :
        a.id # b.id =>
            \/ a.dynamic_shift_id # b.dynamic_shift_id
            \/ a.employee_id # b.employee_id
            \/ a.role_in_shift # b.role_in_shift

\* the first update of the confirmation on slot p would leave two rows of
\* its shift with the same employee and role
WouldDuplicate(p) ==
    /\ proc[p].op = "auto_assign" /\ proc[p].pc = "update_assignment"
    /\ \E a, b \in dynamic_shift_assignments :
            /\ a.id # b.id
            /\ a.dynamic_shift_id = proc[p].shift_id
            /\ b.dynamic_shift_id = proc[p].shift_id
            /\ a.role_in_shift = b.role_in_shift

ConfirmedBy(shift_id, employee_id) ==
    /\ \A a \in dynamic_shift_assignments :
            a.dynamic_shift_id = shift_id =>
                a.employee_id = employee_id /\ a.status = "asignado"
    /\ \A s \in dynamic_shifts :
            s.id = shift_id =>
                /\ s.status = "asignado"
                /\ \A dr \in delivery_requests :
                        dr.id \in s.route_id =>
                            dr.driver_id = employee_id /\ dr.status = "assigned"

\* C27: a confirmation is idempotent.  The commit of a confirmation of a
\* shift by an employee, made on committed rows that are already what such
\* a confirmation leaves, changes no assignment, shift or delivery row.
C27_ConfirmTwiceIsConfirmOnce ==
    [][\A p \in Procs :
        (CommitOf(p) /\ ConfirmedBy(proc[p].shift_id, proc[p].employee_id)) =>
            store' = store]_vars

\* the seeded shift, its assignment and its delivery request are committed
\* as confirmed by employee 2, and a further confirmation by employee 2 has
\* run its three updates and is about to commit
C27_SecondConfirmAboutToCommit ==
    /\ ConfirmedBy(1, 2)
    /\ \E a \in dynamic_shift_assignments : a.dynamic_shift_id = 1 /\ a.employee_id = 2
    /\ \E dr \in delivery_requests : dr.driver_id = 2
    /\ \E q \in Procs :
            /\ proc[q].op = "auto_assign" /\ proc[q].pc = "commit"
            /\ proc[q].shift_id = 1 /\ proc[q].employee_id = 2
            /\ tx[q].dsa_w # {} /\ tx[q].ds_w # {} /\ tx[q].dr_w # {}

\* the delivery requests that the route of the shift names
DeliveriesOfShift(shift_id) ==
    {dr \in delivery_requests :
        \E s \in dynamic_shifts : s.id = shift_id /\ dr.id \in s.route_id}

\* C30: the commit of a successful confirmation of a shift whose route is
\* the id of a delivery request that exists leaves, in the one committed
\* state it produces, that delivery request with the employee of the
\* request as driver and status assigned, every assignment of the shift
\* with that employee and status asignado, and the shift asignado.
C30_ConfirmReachesDelivery ==
    [][\A p \in Procs : \A shift_id \in {proc[p].shift_id} :
        \A employee_id \in {proc[p].employee_id} :
            (CommitOf(p) /\ DeliveriesOfShift(shift_id) # {}) =>
                /\ \A dr \in DeliveriesOfShift(shift_id)' :
                        dr.driver_id = employee_id /\ dr.status = "assigned"
                /\ \A a \in dynamic_shift_assignments' :
                        a.dynamic_shift_id = shift_id =>
                            a.employee_id = employee_id /\ a.status = "asignado"
                /\ \A s \in dynamic_shifts' :
                        s.id = shift_id => s.status = "asignado"]_vars

\* the confirmation of the seeded shift by employee 2 has returned 200:
\* the delivery request of its route, which had driver 1, has driver 2,
\* and so has the assignment, beside the shift now asignado
C30_DeliveryHasConfirmedDriver ==
    /\ resp.op = "auto_assign" /\ resp.status_code = 200
    /\ resp.shift_id = 1 /\ resp.employee_id = 2
    /\ DeliveriesOfShift(1) = {[SeedDelivery EXCEPT !.driver_id = 2]}
    /\ \E a \in dynamic_shift_assignments :
            a.dynamic_shift_id = 1 /\ a.employee_id = 2 /\ a.status = "asignado"
    /\ \E s \in dynamic_shifts : s.id = 1 /\ s.status = "asignado"

(***************************************************************************)
(* Retrying after a failed sync.  The route assignment has committed       *)
(* delivery request 1 and the sync that followed has failed.  One caller   *)
(* repeats the sync, which may fail again at its first insert, and         *)
(* confirms the shifts it has stored, which may fail at any statement; a   *)
(* request that is repeated for ever is in the end served without error.   *)
(***************************************************************************)
InitRetry ==
    /\ delivery_requests = {SeedDelivery}
    /\ dynamic_shifts = {}
    /\ dynamic_shift_assignments = {}
    /\ \E n \in 0..1 : seq = [dr |-> 1, ds |-> n, dsa |-> n, rr |-> 0, sa |-> 0]
    /\ route_requests = {}
    /\ employees = SeedEmployees
    /\ shift_assignments = {}
    /\ now = 0
    /\ proc = [p \in Procs |-> IdleProc]
    /\ tx = [p \in Procs |-> EmptyTx]
    /\ resp = NoResponse
    /\ codec = CodecOff

\* the sync of the token of delivery request 1 that the database accepts
SyncAccepted == Syncs({encode(1)}, Employees, {{}}, {{}}, {"none"})

\* the caller confirms a shift that a sync has stored
ConfirmStored ==
    \E s \in Ids(dynamic_shifts), e \in Employees : auto_assign_driver_to_shift(1, s, e)

NextRetry ==
    \/ SyncAccepted
    \/ Syncs({encode(1)}, Employees, {{}}, {{}}, {"insert_shift"})
    \/ ConfirmStored
    \/ auto_assign_update_assignment(1)
    \/ auto_assign_update_shift(1)
    \/ auto_assign_update_delivery(1)
    \/ auto_assign_commit(1)
    \/ auto_assign_error(1)

\* a sync and the arrival of a confirmation stay possible until they
\* happen, so weak fairness makes the caller repeat them; each statement
\* and the commit of a confirmation compete with their rejection, and are
\* accepted in the end if they are attempted again and again
FairRetry ==
    /\ WF_vars(SyncAccepted)
    /\ WF_vars(ConfirmStored)
    /\ SF_vars(auto_assign_update_assignment(1))
    /\ SF_vars(auto_assign_update_shift(1))
    /\ SF_vars(auto_assign_update_delivery(1))
    /\ SF_vars(auto_assign_commit(1))

SpecRetry == InitRetry /\ [][NextRetry]_vars /\ FairRetry

\* delivery request 1 is assigned and no shift is linked to it
LeftByFailedSync ==
    /\ \E dr \in delivery_requests : dr.id = 1 /\ dr.status = "assigned"
    /\ \A s \in dynamic_shifts : s.route_id # {1}

\* a shift linked to delivery request 1 is asignado and has an asignado
\* assignment whose employee is the driver of the delivery request
Reconciled ==
    \E dr \in delivery_requests, s \in dynamic_shifts, a \in dynamic_shift_assignments :
        /\ dr.id = 1 /\ s.route_id = {1} /\ a.dynamic_shift_id = s.id
        /\ s.status = "asignado" /\ a.status = "asignado"
        /\ dr.driver_id = a.employee_id

\* C28: from the state a failed sync leaves (delivery request assigned, no
\* shift), when the sync and then the confirmation are repeated and the
\* database in the end accepts them, a state is reached in which a shift
\* linked to the delivery request is asignado with an asignado assignment
\* whose employee is the driver of the delivery request.
C28_EventuallyReconciled == LeftByFailedSync ~> Reconciled

\* a sync for employee 2 has stored a shift for delivery request 1, whose
\* driver was employee 1, and a confirmation by employee 2 has then
\* committed: assignment and delivery request both name employee 2
C28_ReconciledByConfirm ==
    /\ resp.op = "auto_assign" /\ resp.status_code = 200 /\ resp.employee_id = 2
    /\ Reconciled
    /\ \A dr \in delivery_requests : dr.driver_id = 2
    /\ \A a \in dynamic_shift_assignments : a.employee_id = 2

(***************************************************************************)
(* POST /auth/login of ms-rrhh (routers/auth.py) over table employees.     *)
(* The column email carries no unique constraint, and the lookup           *)
(* query(Employee).filter(Employee.email == username).first() has no       *)
(* ORDER BY: of several rows with the email it returns any one.  A bcrypt  *)
(* hash is the salt with the digest of salt and password; the digest is    *)
(* taken collision-free, so it is written as the pair it is computed from. *)
(***************************************************************************)
ACCESS_TOKEN_EXPIRE_MINUTES == 60 * 24

Emails == {"carlos.lopez@logistica.cl", "test@example.com"}

Usernames == Emails \cup {"nonexistent@example.com"}

StoredPasswords == {"123456", "password123"}

LoginPasswords == StoredPasswords \cup {"wrongpassword"}

\* the values of bcrypt.gensalt()
Salts == {"salt1", "salt2"}

\* bcrypt.hashpw(password, salt)
hashpw(password, salt) == [salt |-> salt, digest |-> <<salt, password>>]

\* bcrypt.checkpw(password, hashed_password): the password is hashed with
\* the salt of the stored hash and the results are compared
checkpw(password, hashed_password) ==
    hashpw(password, hashed_password.salt) = hashed_password

\* if not hashed_password: return False
\* return bcrypt.checkpw(plain_password.encode('utf-8'), hashed_password.encode('utf-8'))
verify_password(plain_password, hashed_password) ==
    IF hashed_password = {} THEN FALSE
    ELSE checkpw(plain_password, CHOOSE h \in hashed_password : TRUE)

\* to_encode = data.copy(); to_encode.update({"exp": utcnow() + expires_delta})
\* the claims that jwt.encode signs, the clock in minutes
create_access_token(data, expires_delta) ==
    [sub |-> data.sub, id |-> data.id, role_id |-> data.role_id,
     exp |-> 60 * now + expires_delta]

\* the rows that filter(Employee.email == username) selects
ByEmail(username) == {u \in employees : u.email = {username}}

login_for_access_token(username, password) ==
    LET locals == [IdleProc EXCEPT !.op = "login", !.username = username,
                                   !.password = password]
        unauthorized == [locals EXCEPT !.status_code = 401,
                                       !.detail = "Incorrect email or password"]
    IN  /\ IF ByEmail(username) = {}
           THEN \* user is None
                resp' = unauthorized
           ELSE \E user \in ByEmail(username) :
                    IF ~verify_password(password, user.password)
                    THEN resp' = unauthorized
                    ELSE resp' = [locals EXCEPT
                            !.status_code = 200,
                            !.employee_id = user.id,
                            !.access_token =
                                {create_access_token(
                                    [sub |-> user.email, id |-> user.id,
                                     role_id |-> user.role_id],
                                    ACCESS_TOKEN_EXPIRE_MINUTES)},
                            !.token_type = "bearer"]
        /\ UNCHANGED <<store, seq, now, proc, tx, codec, route_requests, employees, shift_assignments>>

\* scripts/set_default_password.py: the user found by the email gets the
\* hash of '123456' under a fresh salt
set_default_password ==
    LET email == "carlos.lopez@logistica.cl"
    IN  /\ ByEmail(email) # {}
        /\ \E user \in ByEmail(email), salt \in Salts :
                employees' = (employees \ {user}) \cup
                    {[user EXCEPT !.password = {hashpw("123456", salt)}]}
        /\ resp' = [IdleProc EXCEPT !.op = "set_default_password", !.username = email]
        /\ UNCHANGED <<store, seq, now, proc, tx, codec, route_requests, shift_assignments>>

\* the optional values of the columns email and password
EmailValues == {{}} \cup {{e} : e \in Emails}

PasswordValues ==
    {{}} \cup {{hashpw(p, s)} : p \in StoredPasswords, s \in {"salt1"}}

InitLogin ==
    /\ delivery_requests = {}
    /\ dynamic_shifts = {}
    /\ dynamic_shift_assignments = {}
    /\ seq = [dr |-> 0, ds |-> 0, dsa |-> 0, rr |-> 0, sa |-> 0]
    /\ route_requests = {}
    /\ \E email \in [Employees -> EmailValues], password \in [Employees -> PasswordValues] :
            employees = {[id |-> e, email |-> email[e], password |-> password[e],
                          role_id |-> {}] : e \in Employees}
    /\ shift_assignments = {}
    /\ now = 0
    /\ proc = [p \in Procs |-> IdleProc]
    /\ tx = [p \in Procs |-> EmptyTx]
    /\ resp = NoResponse
    /\ codec = CodecOff

NextLogin ==
    \/ \E username \in Usernames, password \in LoginPasswords :
            login_for_access_token(username, password)
    \/ set_default_password

SpecLogin == InitLogin /\ [][NextLogin]_vars

\* an employee has the email of the request and the password of the
\* request verifies against that employee's stored hash
CredentialsMatch ==
    \E u \in employees :
        /\ u.email = {resp.username}
        /\ verify_password(resp.password, u.password)

\* C29: a login returns a bearer access token exactly when some employee
\* has the given email and the given password verifies against the
\* stored hash, and every other login is answered 401 with detail
\* "Incorrect email or password".
C29_TokenIffCredentialsMatch ==
    resp.op = "login" =>
        IF CredentialsMatch
        THEN resp.status_code = 200 /\ resp.access_token # {}
             /\ resp.token_type = "bearer"
        ELSE resp.status_code = 401 /\ resp.access_token = {}
             /\ resp.detail = "Incorrect email or password"

(***************************************************************************)
(* Confirmations beside rows of another shift.  Two shifts with one        *)
(* assignment each and two delivery requests are stored; the second shift  *)
(* has the route of the first, a route of its own, or none.                *)
(***************************************************************************)
InitFrame ==
    /\ \E route_id \in {{1}, {2}, {}} :
            dynamic_shifts =
                {SeedShift("pendiente", 0, {1}),
                 [SeedShift("pendiente", 0, route_id) EXCEPT !.id = 2]}
    /\ dynamic_shift_assignments =
            {SeedAssignment("asignado"),
             [SeedAssignment("asignado") EXCEPT !.id = 2, !.dynamic_shift_id = 2]}
    /\ delivery_requests = {SeedDelivery, [SeedDelivery EXCEPT !.id = 2]}
    /\ seq = [dr |-> 2, ds |-> 2, dsa |-> 2, rr |-> 0, sa |-> 0]
    /\ route_requests = {}
    /\ employees = SeedEmployees
    /\ shift_assignments = {}
    /\ now = 0
    /\ proc = [p \in Procs |-> IdleProc]
    /\ tx = [p \in Procs |-> EmptyTx]
    /\ resp = NoResponse
    /\ codec = CodecOff

NextFrame ==
    \E p \in Procs :
        \/ \E s \in Ids(dynamic_shifts), e \in Employees :
                auto_assign_driver_to_shift(p, s, e)
        \/ auto_assign_update_assignment(p)
        \/ auto_assign_update_shift(p)
        \/ auto_assign_update_delivery(p)
        \/ auto_assign_commit(p)

SpecFrame == InitFrame /\ [][NextFrame]_vars

\* the rows a confirmation of the shift does not address
AssignmentsBeside(shift_id) ==
    {a \in dynamic_shift_assignments : a.dynamic_shift_id # shift_id}

ShiftsBeside(shift_id) == {s \in dynamic_shifts : s.id # shift_id}

DeliveriesBeside(shift_id) ==
    {dr \in delivery_requests :
        \A s \in dynamic_shifts : s.id = shift_id => dr.id \notin s.route_id}

\* C31: a step of a confirmation of a shift leaves every assignment of
\* another shift, every other shift, and every delivery request but the
\* one whose id is the route of the shift as they were, and changes at
\* most one delivery request.
C31_ConfirmKeepsOtherRows ==
    [][\A p \in Procs : \A shift_id \in {proc[p].shift_id} :
        StepOf(p) =>
            /\ AssignmentsBeside(shift_id)' = AssignmentsBeside(shift_id)
            /\ ShiftsBeside(shift_id)' = ShiftsBeside(shift_id)
            /\ DeliveriesBeside(shift_id)' = DeliveriesBeside(shift_id)
            /\ Cardinality(delivery_requests' \ delivery_requests) <= 1]_vars

\* the confirmation of shift 1 by employee 2 has returned 200 and changed
\* its assignment and delivery request 1, while shift 2, its assignment
\* and delivery request 2 are as they were stored
C31_OtherShiftUntouched ==
    /\ resp.op = "auto_assign" /\ resp.status_code = 200
    /\ resp.shift_id = 1 /\ resp.employee_id = 2
    /\ [SeedDelivery EXCEPT !.driver_id = 2] \in delivery_requests
    /\ [SeedDelivery EXCEPT !.id = 2] \in delivery_requests
    /\ [SeedAssignment("asignado") EXCEPT !.employee_id = 2] \in dynamic_shift_assignments
    /\ [SeedAssignment("asignado") EXCEPT !.id = 2, !.dynamic_shift_id = 2]
            \in dynamic_shift_assignments
    /\ \E s \in dynamic_shifts : s.id = 2 /\ s.status = "pendiente"

(***************************************************************************)
(* A confirmation beside the purge.  One stale pendiente shift is stored   *)
(* with its assignment and its delivery request; confirmations of it and   *)
(* purges run statement by statement on concurrent sessions.               *)
(***************************************************************************)
InitPurgeRace ==
    /\ dynamic_shifts = {SeedShift("pendiente", 0 - RetentionHours - 1, {1})}
    /\ dynamic_shift_assignments = {SeedAssignment("asignado")}
    /\ delivery_requests = {SeedDelivery}
    /\ seq = [dr |-> 1, ds |-> 1, dsa |-> 1, rr |-> 0, sa |-> 0]
    /\ route_requests = {}
    /\ employees = SeedEmployees
    /\ shift_assignments = {}
    /\ now = 0
    /\ proc = [p \in Procs |-> IdleProc]
    /\ tx = [p \in Procs |-> EmptyTx]
    /\ resp = NoResponse
    /\ codec = CodecOff

NextPurgeRace ==
    \/ \E p \in Procs :
        \/ \E e \in Employees : auto_assign_driver_to_shift(p, 1, e)
        \/ auto_assign_update_assignment(p)
        \/ auto_assign_update_shift(p)
        \/ auto_assign_update_delivery(p)
        \/ auto_assign_commit(p)
    \/ Sweeps(Procs)

SpecPurgeRace == InitPurgeRace /\ [][NextPurgeRace]_vars

\* C32: a confirmation that runs beside the purge of its stale pendiente
\* shift and reports success leaves the shift stored with status asignado;
\* when the purge has deleted the shift the confirmation does not report
\* success.
C32_ConfirmedShiftSurvivesPurge ==
    (resp.op = "auto_assign" /\ resp.status_code = 200) =>
        \E s \in dynamic_shifts : s.id = resp.shift_id /\ s.status = "asignado"

(***************************************************************************)
(* Validation of the sync payload                                          *)
(***************************************************************************)
\* C33: a sync whose payload lacks the tracking number or the driver id is
\* answered with the validation error (400), not with the internal error,
\* and inserts no shift and no assignment.
C33_SyncWithoutTokenOrDriverIs400 ==
    [][(/\ resp'.op = "sync_route"
        /\ (resp'.tracking_number = <<>> \/ resp'.driver_id = 0)) =>
            /\ resp'.status_code = 400
            /\ dynamic_shifts' = dynamic_shifts
            /\ dynamic_shift_assignments' = dynamic_shift_assignments
            /\ seq' = seq]_vars

\* a sync without driver id has been answered 400 beside a shift and an
\* assignment that an earlier sync stored
C33_DriverlessSyncRefused ==
    /\ resp.op = "sync_route" /\ resp.status_code = 400
    /\ resp.driver_id = 0 /\ resp.tracking_number = encode(1)
    /\ resp.dynamic_shift_id = 0
    /\ \E s \in dynamic_shifts : s.id = seq.ds
    /\ \E a \in dynamic_shift_assignments : a.id = seq.dsa

(***************************************************************************)
(* The delivery request of an unassigned shift                             *)
(***************************************************************************)
\* C34: an unassignment, whether it succeeds or fails, changes no delivery
\* request; the delivery request whose id is the route of the shift it
\* deletes keeps its driver and its status assigned.
C34_UnassignKeepsDeliveries ==
    [][resp'.op = "unassign" =>
        /\ delivery_requests' = delivery_requests
        /\ \A s \in dynamic_shifts, dr \in delivery_requests :
                (s.id = resp'.shift_id /\ dr.id \in s.route_id) =>
                    \E kept \in delivery_requests' :
                        /\ kept.id = dr.id /\ kept.driver_id = dr.driver_id
                        /\ kept.status = "assigned"]_vars

\* the seeded shift of route 1 and its assignment have been deleted by an
\* unassignment that returned 200, and delivery request 1 is still
\* assigned to driver 1
C34_DeliveryOutlivesShift ==
    /\ resp.op = "unassign" /\ resp.status_code = 200 /\ resp.shift_id = 1
    /\ 1 \notin Ids(dynamic_shifts)
    /\ \A a \in dynamic_shift_assignments : a.dynamic_shift_id # 1
    /\ SeedDelivery \in delivery_requests
    /\ \A s \in dynamic_shifts : s.route_id # {1}

(***************************************************************************)
(* Synced shifts as they age.  Beside a seeded shift that is pendiente and *)
(* stale, syncs store shifts, confirmations and purges run, and the clock  *)
(* of the database moves on by the retention window or an hour more.       *)
(***************************************************************************)
InitAge ==
    /\ dynamic_shifts = {SeedShift("pendiente", 0 - RetentionHours - 1, {1})}
    /\ dynamic_shift_assignments = {SeedAssignment("asignado")}
    /\ delivery_requests = {SeedDelivery}
    /\ seq = [dr |-> 1, ds |-> 1, dsa |-> 1, rr |-> 0, sa |-> 0]
    /\ route_requests = {}
    /\ employees = SeedEmployees
    /\ shift_assignments = {}
    /\ now = 0
    /\ proc = [p \in Procs |-> IdleProc]
    /\ tx = [p \in Procs |-> EmptyTx]
    /\ resp = NoResponse
    /\ codec = CodecOff

\* NOW() is later by h hours
Elapse(h) ==
    /\ now + h <= MaxElapsed
    /\ now' = now + h
    /\ resp' = NoResponse
    /\ UNCHANGED <<store, seq, proc, tx, codec, route_requests, employees, shift_assignments>>

NextAge ==
    \/ \E h \in {RetentionHours, RetentionHours + 1} : Elapse(h)
    \/ Syncs({encode(1)}, {1}, {{}}, {{}}, {"none"})
    \/ \E s \in Ids(dynamic_shifts), e \in Employees : auto_assign_driver_to_shift(1, s, e)
    \/ auto_assign_update_assignment(1)
    \/ auto_assign_update_shift(1)
    \/ auto_assign_update_delivery(1)
    \/ auto_assign_commit(1)
    \/ Cleanups({"none"})

SpecAge == InitAge /\ [][NextAge]_vars

\* the shifts that a sync has stored: all but the seeded one
SyncedShifts == {s \in dynamic_shifts : s.id # 1}

\* C35: a shift that a sync has stored has status asignado after every
\* step of syncs, confirmations, purges and the clock, and no purge deletes
\* it or returns its id, however old it is.
C35_PurgeKeepsSyncedShifts ==
    [][/\ \A s \in SyncedShifts' : s.status = "asignado"
       /\ resp'.op = "cleanup" =>
            /\ SyncedShifts \subseteq SyncedShifts'
            /\ resp'.deleted_ids \cap Ids(SyncedShifts) = {}]_vars

\* a purge has deleted the seeded pendiente shift and kept a synced shift
\* that is older than the retention window
C35_OldSyncedShiftKept ==
    /\ resp.op = "cleanup" /\ resp.status_code = 200 /\ resp.deleted_ids = {1}
    /\ \E s \in SyncedShifts : now - s.created_at > RetentionHours

(***************************************************************************)
(* Tokens of repeated route assignments.  The table is empty and the id    *)
(* sequence is at its start or near the width of the token format; the     *)
(* same request is repeated for either driver, failing or not.             *)
(***************************************************************************)
InitTokens ==
    /\ delivery_requests = {}
    /\ dynamic_shifts = {}
    /\ dynamic_shift_assignments = {}
    /\ \E n \in {0, WideIdStart} : seq = [dr |-> n, ds |-> 0, dsa |-> 0, rr |-> 0, sa |-> 0]
    /\ route_requests = {}
    /\ employees = SeedEmployees
    /\ shift_assignments = {}
    /\ now = 0
    /\ proc = [p \in Procs |-> IdleProc]
    /\ tx = [p \in Procs |-> EmptyTx]
    /\ resp = NoResponse
    /\ codec = CodecOff

NextTokens == Assigns(Employees, {<<"A">>}, AssignFaults)

SpecTokens == InitTokens /\ [][NextTokens]_vars

\* the delivery requests whose id the token decodes to
DecodedBy(token, rows) == {dr \in rows : {dr.id} = decode(token)}

\* C36: a route assignment that returns 200 stores a delivery request
\* under an id that no stored delivery request has, and returns a token
\* that differs from the token of every delivery request stored before and
\* decodes to the new delivery request alone; the tokens of the stored
\* delivery requests are pairwise distinct and each decodes to its own.
C36_TokensAreFreshAndDistinct ==
    [][(resp'.op = "assign_route" /\ resp'.status_code = 200) =>
        /\ resp'.request_id \notin Ids(delivery_requests)
        /\ \A dr \in delivery_requests : encode(dr.id) # resp'.tracking_number
        /\ \E new \in delivery_requests' \ delivery_requests :
                /\ new.id = resp'.request_id
                /\ DecodedBy(resp'.tracking_number, delivery_requests') = {new}
        /\ \A a, b \in delivery_requests' :
                /\ encode(a.id) = encode(b.id) => a = b
                /\ DecodedBy(encode(a.id), delivery_requests') = {a}]_vars

\* the same request has succeeded three times in a row across the width
\* of the format: the tokens RT-999999, RT-1000000 and RT-1000001 name
\* three delivery requests of driver 1
C36_RetriesAcrossFormatWidth ==
    /\ resp.op = "assign_route" /\ resp.status_code = 200
    /\ resp.tracking_number = <<"R", "T", "-", "1", "0", "0", "0", "0", "0", "1">>
    /\ \A id \in {999999, 1000000, 1000001} :
            [id |-> id, driver_id |-> 1, status |-> "assigned"] \in delivery_requests

\* ---------------------------------------------------------------------
\* Regular shift assignments: POST /assignments (create_assignment)
\* ---------------------------------------------------------------------

\* rows of table shifts the requests refer to
RegularShifts == {1, 2}

\* the dates the requests carry
Dates == {"2025-03-04", "2025-03-05"}

\* what a session reads from shift_assignments: the committed rows and
\* its own uncommitted insert
VisibleSa(p) == shift_assignments \cup tx[p].sa_w

\* SELECT id FROM shift_assignments WHERE employee_id = :employee_id AND date = :date
ExistingAssignment(p, employee_id, date) ==
    {a \in VisibleSa(p) : a.employee_id = employee_id /\ a.date = date}

\* the rows the unique index u_employee_shift_date compares a new row to
SameKey(rows, employee_id, shift_id, date) ==
    {a \in rows : /\ a.employee_id = employee_id
                  /\ a.shift_id = shift_id
                  /\ a.date = date}

\* the request arrives: employee_id, shift_id and date are read from the body
create_assignment(p, employee_id, shift_id, date) ==
    /\ Free(p)
    /\ seq.sa < MaxAssignmentSeq
    /\ proc' = [proc EXCEPT ![p] = [IdleProc EXCEPT !.op = "create_assignment",
                                                    !.pc = "check",
                                                    !.employee_id = employee_id,
                                                    !.shift_id = shift_id,
                                                    !.date = date]]
    /\ resp' = IdleProc
    /\ UNCHANGED <<store, seq, now, tx, codec, route_requests, employees, shift_assignments>>

\* existing = db.execute(SELECT ...).fetchone(); if existing: raise 409
create_assignment_check(p) ==
    /\ proc[p].op = "create_assignment"
    /\ proc[p].pc = "check"
    /\ IF ExistingAssignment(p, proc[p].employee_id, proc[p].date) # {}
       THEN Raise(p, 409)
       ELSE /\ proc' = [proc EXCEPT ![p].pc = "insert"]
            /\ resp' = IdleProc
            /\ UNCHANGED tx
    /\ UNCHANGED <<store, seq, now, codec, route_requests, employees, shift_assignments>>

\* INSERT INTO shift_assignments ... RETURNING id, ...: waits for an open
\* insert of the same (employee_id, shift_id, date); a committed row of that
\* key or a missing employee fails the statement, which the handler answers
\* with 500
create_assignment_insert(p) ==
    /\ proc[p].op = "create_assignment"
    /\ proc[p].pc = "insert"
    /\ \A q \in Procs \ {p} :
            SameKey(tx[q].sa_w, proc[p].employee_id, proc[p].shift_id, proc[p].date) = {}
    /\ IF \/ SameKey(shift_assignments, proc[p].employee_id, proc[p].shift_id,
                     proc[p].date) # {}
          \/ proc[p].employee_id \notin Ids(employees)
       THEN /\ Raise(p, 500)
            /\ seq' = [seq EXCEPT !.sa = @ + 1]
       ELSE /\ tx' = [tx EXCEPT ![p].sa_w =
                        {[id |-> seq.sa + 1, employee_id |-> proc[p].employee_id,
                          shift_id |-> proc[p].shift_id, date |-> proc[p].date]}]
            /\ seq' = [seq EXCEPT !.sa = @ + 1]
            /\ proc' = [proc EXCEPT ![p].pc = "commit",
                                    ![p].assignment_id = seq.sa + 1]
            /\ resp' = IdleProc
    /\ UNCHANGED <<store, now, codec, route_requests, employees, shift_assignments>>

\* db.commit(); return {"id": ..., "employee_id": ..., "shift_id": ..., "date": ...}
create_assignment_commit(p) ==
    /\ proc[p].op = "create_assignment"
    /\ proc[p].pc = "commit"
    /\ shift_assignments' = VisibleSa(p)
    /\ tx' = [tx EXCEPT ![p] = EmptyTx]
    /\ Return(p, proc[p])
    /\ UNCHANGED <<store, seq, now, codec, route_requests, employees>>

InitRoster ==
    /\ delivery_requests = {}
    /\ dynamic_shifts = {}
    /\ dynamic_shift_assignments = {}
    /\ seq = [dr |-> 0, ds |-> 0, dsa |-> 0, rr |-> 0, sa |-> 0]
    /\ now = 0
    /\ proc = [p \in Procs |-> IdleProc]
    /\ tx = [p \in Procs |-> EmptyTx]
    /\ resp = IdleProc
    /\ codec = CodecOff
    /\ route_requests = {}
    /\ employees = SeedEmployees
    /\ shift_assignments = {}

NextRoster ==
    \E p \in Procs :
        \/ \E employee_id \in Employees \cup {NumEmployees + 1},
              shift_id \in RegularShifts, date \in Dates :
                create_assignment(p, employee_id, shift_id, date)
        \/ create_assignment_check(p)
        \/ create_assignment_insert(p)
        \/ create_assignment_commit(p)

SpecRoster == InitRoster /\ [][NextRoster]_vars

\* C37: the committed regular shift assignments hold at most one row per
\* (employee, date), also when creates for one employee and date with
\* different shifts run concurrently.
C37_OneAssignmentPerEmployeeDate ==
    \A a \in shift_assignments : \A b \in shift_assignments :
        (a.employee_id = b.employee_id /\ a.date = b.date) => a = b

\* C37, sequential part: a create whose employee already has a committed
\* assignment on the date when the request arrives is answered 409 (or a
\* failure), never 200, and the table keeps its rows for that employee and
\* date.
C37_CreateOverExistingIsConflict ==
    [][\A p \in Procs :
        (/\ proc[p].op = "create_assignment"
         /\ proc[p].pc = "check"
         /\ resp'.op = "create_assignment"
         /\ resp'.pc = "done"
         /\ proc'[p] = IdleProc
         /\ ExistingAssignment(p, proc[p].employee_id, proc[p].date) # {})
        => /\ resp'.status_code = 409
           /\ shift_assignments' = shift_assignments
           /\ tx'[p] = EmptyTx]_vars

\* a create answered 409 while the employee's earlier assignment stays
C37_ConflictAnswered ==
    /\ resp.op = "create_assignment"
    /\ resp.status_code = 409
    /\ \E a \in shift_assignments :
            a.employee_id = resp.employee_id /\ a.date = resp.date

====
